---- MODULE Spec2Model ----
(***************************************************************************)
(* offline-data-manager: the registry, the download queue, the persistent  *)
(* drain loop and the per-item download pipeline, as a state machine.      *)
(*                                                                         *)
(* JavaScript runs one task at a time and an async function gives up the   *)
(* thread only at an await.  Every action below is the completion of one   *)
(* awaited operation (an IndexedDB request, a fetch, a timer) followed by   *)
(* the synchronous code that runs up to the next await.  A public call      *)
(* whose body holds no awaited I/O (startDownloads, stopDownloads,          *)
(* abortDownload, abortAllDownloads) is one action.                         *)
(***************************************************************************)
EXTENDS Integers, Sequences, FiniteSets, TLC

\* ---------------------------------------------------------------- constants

CHUNK_SIZE           == 2 * 1024 * 1024
LARGE_FILE_THRESHOLD == 5 * 1024 * 1024
DEFAULT_CONCURRENCY  == 2
MAX_RETRY_COUNT      == 5
BACKOFF_BASE_MS      == 1000
DEFAULT_PRIORITY     == 10

\* JavaScript null / undefined of a numeric field
NULL == 0 - 1
\* JavaScript null / undefined of a string field
NONE == "null"

\* ------------------------------------------------------------------- bounds

\* pipelines that may be alive for one id at the same time
MaxPipes   == 2
\* drain loops (drivers) that may be alive at the same time
MaxDrivers == 2
\* drain selections (runNext closures) that may be alive at the same time
MaxCtx     == 2
\* highest version a caller registers
MaxVersion == 2
\* clock ticks (of TickMs milliseconds each)
MaxTicks   == 1
\* calls of each kind a behaviour may hold (see the budget records)
MaxRegister == 2
MaxDelete   == 1
MaxStart    == 1
MaxStop     == 1
MaxAbort    == 1
MaxRetry    == 1
MaxEdges    == 1
MaxSync     == 2

TickMs == 1000

\* the ids, in key order
IdOrder == << "a", "b" >>
Ids  == {IdOrder[i] : i \in 1 .. Len(IdOrder)}

\* ------------------------------------------------------------ the server

\* Content-Length of the resource behind a URL
ContentLength(url) ==
  CASE url \in {"big", "unranged", "encoded"} -> 3 * CHUNK_SIZE
    [] url = "edge" -> LARGE_FILE_THRESHOLD
    [] OTHER -> 1024
\* Accept-Ranges: bytes
AcceptsRanges(url) == url \in {"big", "unranged", "encoded", "edge"}
\* Content-Encoding is present and is not identity
IsEncoded(url) == url = "encoded"
\* (contentLength && !isEncoded) ? parseInt(contentLength, 10) : null
HeaderLength(url) == IF IsEncoded(url) THEN NULL ELSE ContentLength(url)
\* a resource whose server, or an intermediary, may ignore the Range header
\* of a request and answer 200 with the whole body
MayIgnoreRange(url) == url = "unranged"

\* ------------------------------------------------------------ status values

PENDING     == "pending"
IN_PROGRESS == "in-progress"
PAUSED      == "paused"
COMPLETE    == "complete"
EXPIRED     == "expired"
FAILED      == "failed"
DEFERRED    == "deferred"

\* a ready set that takes a row under transfer for ready
ReadyOrInProgress == {COMPLETE, EXPIRED, IN_PROGRESS}

READY_STATUSES == {COMPLETE, EXPIRED}

\* a payload: where it was fetched from and how many bytes it holds
NoData == [url |-> NONE, ver |-> NULL, len |-> NULL]
Buffer(url, ver, len) == [url |-> url, ver |-> ver, len |-> len]

\* JavaScript truthiness of a number-or-null
Truthy(n) == n /= NULL /\ n /= 0

\* a ?? b on number-or-null
Coalesce(a, b) == IF a /= NULL THEN a ELSE b

\* {...row, ...patch}
Merge(row, patch) ==
  [f \in DOMAIN row |-> IF f \in DOMAIN patch THEN patch[f] ELSE row[f]]

\* ------------------------------------------------------------------ registry

makeQueueEntry ==
  [ status          |-> PENDING,
    data            |-> NoData,
    mimeType        |-> NONE,
    bytesDownloaded |-> 0,
    totalBytes      |-> NULL,
    byteOffset      |-> 0,
    retryCount      |-> 0,
    errorMessage    |-> NONE,
    deferredReason  |-> NONE,
    completedAt     |-> NULL,
    expiresAt       |-> NULL ]

\* the entries a caller passes to registerFile
Entry(id, version, url, prot, ttl, prio, hint) ==
  [ id |-> id, version |-> version, downloadUrl |-> url, protected |-> prot,
    ttl |-> ttl, priority |-> prio, totalBytes |-> hint, mimeType |-> NONE ]

NoEntry == Entry(NONE, NULL, NONE, FALSE, 0, DEFAULT_PRIORITY, NULL)

\* the status fields stamped on a new registry row, and written by the
\* version-bump reset (which leaves lastAttemptAt alone)
StatusReset ==
  [ status          |-> PENDING,
    bytesDownloaded |-> 0,
    retryCount      |-> 0,
    errorMessage    |-> NONE,
    deferredReason  |-> NONE,
    completedAt     |-> NULL,
    expiresAt       |-> NULL ]

\* a registry record without status fields (status: undefined)
StatusUndefined ==
  [ status          |-> NONE,
    bytesDownloaded |-> NULL,
    retryCount      |-> NULL,
    errorMessage    |-> NONE,
    deferredReason  |-> NONE,
    completedAt     |-> NULL,
    expiresAt       |-> NULL ]

\* registryRecord: existing is a sequence holding the existing row, if any
registryRecord(e, existing) ==
  LET s == IF existing = <<>> THEN StatusReset ELSE StatusUndefined
  IN  [ version         |-> e.version,
        downloadUrl     |-> e.downloadUrl,
        mimeType        |-> e.mimeType,
        protected       |-> e.protected,
        priority        |-> e.priority,
        ttl             |-> e.ttl,
        totalBytes      |-> e.totalBytes,
        status          |-> s.status,
        bytesDownloaded |-> s.bytesDownloaded,
        retryCount      |-> s.retryCount,
        errorMessage    |-> s.errorMessage,
        deferredReason  |-> s.deferredReason,
        completedAt     |-> s.completedAt,
        expiresAt       |-> s.expiresAt ]

\* a comparison that also takes an equal version for an increase
VersionNotLower(e, row) == e.version >= row.version

\* entry.version > existing.version
VersionIncreased(e, row) == e.version > row.version

\* the queue row a version bump writes: data and mimeType are kept
BumpQueueEntry(existingQueue) ==
  IF existingQueue = <<>> THEN makeQueueEntry
  ELSE Merge(existingQueue[1],
             [ status          |-> PENDING,
               bytesDownloaded |-> 0,
               byteOffset      |-> 0,
               retryCount      |-> 0,
               errorMessage    |-> NONE,
               deferredReason  |-> NONE,
               completedAt     |-> NULL,
               expiresAt       |-> NULL ])

computeExpiresAt(completedAt, ttl) ==
  IF ttl = 0 \/ ttl = NULL THEN NULL ELSE completedAt + ttl * 1000

\* a test that lets the instant of expiry itself pass
isExpiredStrict(expiresAt, t) ==
  IF ~Truthy(expiresAt) THEN FALSE ELSE t > expiresAt

\* isExpired at clock value t
isExpired(expiresAt, t) ==
  IF ~Truthy(expiresAt) THEN FALSE ELSE t >= expiresAt

\* a reset that leaves the payload in place
ResetRowKeepingData(existing) ==
  Merge(existing,
        [ status          |-> PENDING,
          bytesDownloaded |-> 0,
          byteOffset      |-> 0,
          retryCount      |-> 0 ])

\* the queue row resetQueueEntry writes
ResetRow(existing) ==
  Merge(existing,
        [ status          |-> PENDING,
          data            |-> NoData,
          bytesDownloaded |-> 0,
          byteOffset      |-> 0,
          retryCount      |-> 0,
          errorMessage    |-> NONE,
          deferredReason  |-> NONE,
          completedAt     |-> NULL,
          expiresAt       |-> NULL ])

\* the quota getStorageEstimate reports where the host has no
\* navigator.storage.estimate, or where the estimate carries no quota
Infinity == 0 - 2

\* hasEnoughSpace(requiredBytes) for an estimate {usage, quota}:
\* available - quota * 0.1 >= requiredBytes, in tenths; with an infinite
\* quota the left side is Infinity - Infinity = NaN, and NaN >= n is false
hasEnoughSpace(requiredBytes, est) ==
  /\ est.quota /= Infinity
  /\ 10 * (est.quota - est.usage) - est.quota >= 10 * requiredBytes


\* -------------------------------------------------------------------- state

VARIABLES
  registry,     \* store "registry": id -> row, for the ids that have a row
  queue,        \* store "downloadQueue": id -> row, for the ids that have a row
  loopRunning,  \* _loopRunning
  wakeResolve,  \* _wakeResolve: the driver whose waiter is installed, 0 = null
  active,       \* _activeDownloads: id -> the pipeline whose controller is mapped, 0 = none
  drivers,      \* the async loops started by startDownloads
  ctxs,         \* the runNext closures of drainQueue: selection left, items in flight
  tasks,        \* the dispatched items: storage pre-check, then downloadSingleFile
  api,          \* the awaited public call in progress, if any
  online,       \* navigator.onLine
  monitoring,   \* _monitoring
  now,          \* Date.now()
  budget,       \* calls and environment events the behaviour may still hold
  work,         \* history: what happened to an id last ("registered", "reset",
                \* "requeued", "redispatched" after a reset, "offline" after a
                \* cancellation by the offline edge, "none")
  out           \* events emitted and value returned by the last step

vars == << registry, queue, loopRunning, wakeResolve, active, drivers, ctxs,
           tasks, api, online, monitoring, now, budget, work, out >>

TaskKeys == Ids \X (1 .. MaxPipes)
DriverIds == 1 .. MaxDrivers
CtxIds == 1 .. MaxCtx

NoReg == registryRecord(NoEntry, <<>>)

NoEstimate == [usage |-> NULL, quota |-> NULL]

FreeTask ==
  [ pc      |-> "free",   \* the await the pipeline stands at
    ctx     |-> 0,        \* the runNext closure that dispatched it
    reg     |-> NoReg,    \* registryEntry: the snapshot row it was dispatched with
    need    |-> 0,        \* needed: the size the storage pre-check asks for
    est     |-> NoEstimate,   \* the estimate its pre-check got
    aborted |-> FALSE,    \* abortController.signal.aborted
    cut     |-> NONE,     \* where the pipeline stood when the signal was aborted
    rc      |-> 0,        \* retryCount (local)
    off     |-> 0,        \* byteOffset read for this attempt (startOffset)
    tb      |-> NULL,     \* totalBytes (local)
    chunked |-> FALSE,    \* useChunking
    range   |-> FALSE,    \* supportsRange
    got     |-> 0,        \* bytes in chunks[] of this attempt
    cAt     |-> NULL,     \* completedAt
    delay   |-> 0,        \* the delay of the sleep under way, in ms
    last    |-> NONE,     \* the answer to the last Range request
    head    |-> NONE,     \* the outcome of the HEAD request, up to the transfer
    prog    |-> NULL,     \* bytesDownloaded of the last progress event of this attempt
    missed  |-> FALSE,    \* a cancellation ran while it stood in the storage pre-check
    w       |-> NONE,     \* the updateQueue call under way
    rd      |-> <<>> ]    \* updateQueue: the row its dbGet returned

DeadDriver ==
  [ pc   |-> "dead",
    conc |-> 0,       \* concurrency
    ctx  |-> 0,       \* the drainQueue closure it awaits
    scan |-> <<>>,    \* rows of the dbGetAll snapshot still to visit
    rd   |-> <<>>,    \* row read by updateQueue / syncStatusToRegistry
    expiredIds |-> <<>> ]   \* evaluateExpiry: the ids it has marked so far

FreeCtx ==
  [ q        |-> <<>>,   \* queue: selection entries not yet dispatched
    inFlight |-> 0,      \* inFlight.size
    conc     |-> 0,      \* concurrency
    owner    |-> 0 ]     \* the driver awaiting resolve(), 0 once resolved

IdleApi ==
  [ op   |-> "idle",
    pc   |-> NONE,
    id   |-> NONE,
    e    |-> NoEntry,
    rp   |-> FALSE,     \* removeProtected
    rd   |-> <<>>,      \* existing / row read
    rq   |-> <<>>,      \* existingQueue
    scan |-> <<>>,      \* rows of a dbGetAll snapshot still to visit
    batch   |-> FALSE,  \* the call is, or was made by, registerFiles
    entries |-> <<>>,   \* registerFiles: entries
    todo    |-> <<>>,   \* registerFiles: entries not yet handed to registerFile
    removed |-> <<>> ]  \* registerFiles: removed

NoRet == [op |-> NONE, id |-> NONE, res |-> NONE]
Ret(op, id, res) == [op |-> op, id |-> id, res |-> res]
Ev(type, id, info, n) == [type |-> type, id |-> id, info |-> info, n |-> n]
Quiet == [ev |-> {}, ret |-> NoRet]
Emit(evs) == [ev |-> evs, ret |-> NoRet]
Return(evs, r) == [ev |-> evs, ret |-> r]

\* dbGet: the row as a sequence of length 0 or 1
dbGet(store, id) == IF id \in DOMAIN store THEN << store[id] >> ELSE <<>>
\* dbPut
dbPut(store, id, row) == [k \in DOMAIN store \cup {id} |-> IF k = id THEN row ELSE store[k]]
\* dbDelete
dbDelete(store, id) == [k \in DOMAIN store \ {id} |-> store[k]]

\* the ids of a store in key order, as dbGetAll returns its rows
InStore(store) == LET Has(x) == x \in DOMAIN store IN SelectSeq(IdOrder, Has)
\* dbGetAll: the rows in key order, each with its id
dbGetAll(store) ==
  LET ids == InStore(store)
  IN  [i \in 1 .. Len(ids) |-> [id |-> ids[i], row |-> store[ids[i]]]]

\* ---------------------------------------------------------------- wake

\* isOnline()
isOnline == online

\* the head of the loop of startDownloads, run by driver dr: while
\* (_loopRunning), then the offline branch or drainQueue, up to the first
\* await (dbGetAll of the offline branch, or of evaluateExpiry)
LoopTop(dr, running, onl) ==
  IF ~running THEN DeadDriver
  ELSE IF ~onl THEN [dr EXCEPT !.pc = "offRead", !.ctx = 0, !.scan = <<>>, !.rd = <<>>,
                               !.expiredIds = <<>>]
  ELSE [dr EXCEPT !.pc = "expRead", !.ctx = 0, !.scan = <<>>, !.rd = <<>>,
                  !.expiredIds = <<>>]

\* _notifyNewWork on drivers drv with waiter wr: the waiting driver resumes
NotifyDrivers(drv, wr, running, onl) ==
  IF wr = 0 THEN drv ELSE [drv EXCEPT ![wr] = LoopTop(@, running, onl)]

\* after "await drainQueue(concurrency)": if (_loopRunning) await _wakeSignal()
AfterDrain(dr, running) ==
  IF running THEN [dr EXCEPT !.pc = "wait", !.ctx = 0, !.scan = <<>>, !.rd = <<>>,
                             !.expiredIds = <<>>]
  ELSE DeadDriver

\* ---------------------------------------------------------------- runNext

\* the first free pipeline slot of an id, 0 if none
FreePipe(tk, id) ==
  IF \E k \in 1 .. MaxPipes : tk[<< id, k >>].pc = "free"
  THEN CHOOSE k \in 1 .. MaxPipes :
         /\ tk[<< id, k >>].pc = "free"
         /\ \A j \in 1 .. MaxPipes : tk[<< id, j >>].pc = "free" => k <= j
  ELSE 0

\* runNext, repeated: the entries of q it dispatches while n slots are free
\* (an entry without a registry row in the snapshot is dropped)
RECURSIVE ToDispatch(_, _)
ToDispatch(q, n) ==
  IF q = <<>> \/ n <= 0 THEN <<>>
  ELSE IF Head(q).reg = <<>> THEN ToDispatch(Tail(q), n)
  ELSE << Head(q) >> \o ToDispatch(Tail(q), n - 1)

\* a runNext that returns at an entry without registry row, and leaves it
RECURSIVE UndispatchedKeepsOrphan(_, _)
UndispatchedKeepsOrphan(q, n) ==
  IF q = <<>> \/ n <= 0 THEN q
  ELSE IF Head(q).reg = <<>> THEN q
  ELSE UndispatchedKeepsOrphan(Tail(q), n - 1)

\* ... and the entries it leaves in q
RECURSIVE Undispatched(_, _)
Undispatched(q, n) ==
  IF q = <<>> \/ n <= 0 THEN q
  ELSE IF Head(q).reg = <<>> THEN Undispatched(Tail(q), n)
  ELSE Undispatched(Tail(q), n - 1)

\* needed = registryEntry.totalBytes ?? queueEntry.totalBytes ?? 0
Needed(item) == Coalesce(item.reg[1].totalBytes, Coalesce(item.qtb, 0))

\* the task of a dispatched selection entry, up to its first await:
\* hasEnoughSpace when a size is known, else the first dbGet of
\* downloadSingleFile
NewTask(item, c) ==
  [FreeTask EXCEPT !.pc   = IF Needed(item) > 0 THEN "space" ELSE "readRetry",
                   !.ctx  = c,
                   !.reg  = item.reg[1],
                   !.need = Needed(item)]


\* runNext calls resolve(): if (!_loopRunning), or with queue and inFlight empty
Resolved(running, rest, n) == ~running \/ (rest = <<>> /\ n = 0)

\* runNext of closure c, called with the closures cx, the tasks tk,
\* _activeDownloads ac, the drivers dr and the waiter wr as the caller left them:
\* it resolves the drain promise (the driver then runs to its next await) or
\* dispatches entries while slots are free
RunNext(c, cx, tk, ac, dr, wr) ==
  LET C        == cx[c]
      slots    == C.conc - C.inFlight
      L        == IF loopRunning THEN ToDispatch(C.q, slots) ELSE <<>>
      rest     == IF loopRunning THEN Undispatched(C.q, slots) ELSE C.q
      n        == C.inFlight + Len(L)
      resolved == Resolved(loopRunning, rest, n)
      ids      == {L[i].id : i \in 1 .. Len(L)}
      item(id) == L[CHOOSE i \in 1 .. Len(L) : L[i].id = id]
      own      == C.owner
  IN  /\ \A id \in ids : FreePipe(tk, id) /= 0
      /\ tasks' = [key \in TaskKeys |->
                     IF key[1] \in ids /\ key[2] = FreePipe(tk, key[1])
                     THEN NewTask(item(key[1]), c) ELSE tk[key]]
      /\ active' = [id \in Ids |->
                     IF id \in ids /\ Needed(item(id)) <= 0
                     THEN FreePipe(tk, id) ELSE ac[id]]
      /\ ctxs' = [cx EXCEPT ![c] =
                     IF resolved /\ n = 0 THEN FreeCtx
                     ELSE [q |-> rest, inFlight |-> n, conc |-> C.conc,
                           owner |-> IF resolved THEN 0 ELSE own]]
      /\ drivers' = IF resolved /\ own /= 0
                    THEN [dr EXCEPT ![own] = AfterDrain(@, loopRunning)]
                    ELSE dr
      /\ wakeResolve' = IF resolved /\ own /= 0 /\ loopRunning THEN own ELSE wr
      /\ work' = [id \in Ids |->
                    IF id \notin ids THEN work[id]
                    ELSE IF work[id] = "reset" THEN "redispatched" ELSE "none"]

\* ------------------------------------------------------- the queue patches

\* entry write of an attempt (lastAttemptAt is not modelled)
InProgressPatch(rc) ==
  [status |-> IN_PROGRESS, retryCount |-> rc, errorMessage |-> NONE]
TotalBytesPatch(tb) == [totalBytes |-> tb]
ChunkProgressPatch(downloaded, offset) ==
  [bytesDownloaded |-> downloaded, byteOffset |-> offset]
FullProgressPatch(downloaded, totalBytes) ==
  [bytesDownloaded |-> downloaded, totalBytes |-> totalBytes]
CompletePatch(data, mimeType, completedAt, expiresAt) ==
  [ status          |-> COMPLETE,
    data            |-> data,
    mimeType        |-> mimeType,
    bytesDownloaded |-> data.len,
    byteOffset      |-> data.len,
    completedAt     |-> completedAt,
    expiresAt       |-> expiresAt,
    errorMessage    |-> NONE,
    deferredReason  |-> NONE ]
PausedPatch == [status |-> PAUSED]
FailedPatch(rc) == [status |-> FAILED, retryCount |-> rc, errorMessage |-> "HTTP"]
RetryPatch(rc) == [status |-> PENDING, retryCount |-> rc, errorMessage |-> "HTTP"]
DeferredPatch == [status |-> DEFERRED, deferredReason |-> "insufficient-storage"]
OfflinePatch == [status |-> PAUSED, deferredReason |-> "network-offline"]
RetryFailedPatch == [status |-> PENDING, retryCount |-> 0, errorMessage |-> NONE]
ExpiredPatch == [status |-> EXPIRED]

\* resolvedMimeType ?? responseMimeType ?? 'application/octet-stream'; the
\* server sends every resource as application/octet-stream
ResolveMime(reg) ==
  IF reg.mimeType /= NONE THEN reg.mimeType ELSE "application/octet-stream"

\* a limit reached one error early
RetriesExhaustedEarly(rc) == rc >= MAX_RETRY_COUNT

\* retryCount > MAX_RETRY_COUNT, after the increment
RetriesExhausted(rc) == rc > MAX_RETRY_COUNT

\* while (retryCount <= MAX_RETRY_COUNT)
MayAttempt(rc) == rc <= MAX_RETRY_COUNT

\* the patch of the updateQueue call a pipeline has under way
PatchOf(tr) ==
  CASE tr.w = "inProgress"    -> InProgressPatch(tr.rc)
    [] tr.w = "totalBytes"    -> TotalBytesPatch(tr.tb)
    [] tr.w = "chunkProgress" -> ChunkProgressPatch(tr.off + tr.got, tr.off + tr.got)
    [] tr.w = "fullProgress"  -> FullProgressPatch(tr.got, HeaderLength(tr.reg.downloadUrl))
    [] tr.w = "complete"      ->
         CompletePatch(Buffer(tr.reg.downloadUrl, tr.reg.version, tr.got),
                       ResolveMime(tr.reg), tr.cAt,
                       computeExpiresAt(tr.cAt, tr.reg.ttl))
    [] tr.w = "paused"        -> PausedPatch
    [] tr.w = "failed"        -> FailedPatch(tr.rc)
    [] tr.w = "retry"         -> RetryPatch(tr.rc)
    [] tr.w = "deferred"      -> DeferredPatch

\* --------------------------------------------------- downloadSingleFile

Write(tr, w) == [tr EXCEPT !.pc = "uqGet", !.w = w, !.rd = <<>>]

\* the head of the retry loop: the entry write, or the end of the function
LoopHead(tr) == IF MayAttempt(tr.rc) THEN Write(tr, "inProgress") ELSE [tr EXCEPT !.pc = "return"]

\* the success path: merge the chunks, stamp completedAt, write complete
Success(tr, t) == Write([tr EXCEPT !.cAt = t], "complete")

\* downloadInChunks: while (offset < totalBytes) fetch, else return the merge
EnterChunks(tr, t) ==
  IF tr.off + tr.got < tr.tb THEN [tr EXCEPT !.pc = "chunk"] ELSE Success(tr, t)

\* a threshold that a file of exactly its size passes
UseChunkingFromThreshold(supportsRange, totalBytes) ==
  supportsRange /\ Truthy(totalBytes) /\ totalBytes >= LARGE_FILE_THRESHOLD

\* useChunking = supportsRange && totalBytes && totalBytes > LARGE_FILE_THRESHOLD
UseChunking(supportsRange, totalBytes) ==
  supportsRange /\ Truthy(totalBytes) /\ totalBytes > LARGE_FILE_THRESHOLD

ChooseMode(tr, t) ==
  IF UseChunking(tr.range, tr.tb)
  THEN EnterChunks([tr EXCEPT !.chunked = TRUE], t)
  ELSE [tr EXCEPT !.chunked = FALSE, !.pc = "get"]

\* catch (err), err.name === 'AbortError'
AbortPath(tr) == Write(tr, "paused")

\* catch (err), any other error: count it, then fail or back off
ErrorPath(tr) ==
  IF RetriesExhausted(tr.rc + 1)
  THEN Write([tr EXCEPT !.rc = tr.rc + 1], "failed")
  ELSE Write([tr EXCEPT !.rc = tr.rc + 1], "retry")

\* the error event of the retry branch, { id, error, retryCount,
\* willRetry: true }, is emitted before its updateQueue
ErrorEvents(t, tr) ==
  IF RetriesExhausted(tr.rc + 1) THEN {}
  ELSE {Ev("error", t[1], "willRetry: true", tr.rc + 1)}

\* backoffDelay(n) = BACKOFF_BASE_MS * Math.pow(2, n)
backoffDelay(n) == BACKOFF_BASE_MS * 2 ^ n

\* a pipeline goes on to its next await
Continue(t, tr, evs) ==
  /\ tasks' = [tasks EXCEPT ![t] = tr]
  /\ UNCHANGED << active, ctxs, drivers, wakeResolve, work >>
  /\ out' = Emit(evs)

\* a dispatched item settles: .finally(() => { inFlight.delete(p); runNext(); })
\* del: _activeDownloads.delete(id) ran first
Settle(t, del, evs) ==
  LET c == tasks[t].ctx
  IN  /\ RunNext(c,
                 [ctxs EXCEPT ![c].inFlight = @ - 1],
                 [tasks EXCEPT ![t] = FreeTask],
                 IF del THEN [active EXCEPT ![t[1]] = 0] ELSE active,
                 drivers, wakeResolve)
      /\ out' = Emit(evs)

\* a pipeline moves to tr: on to the next await, or out of the function
Advance(t, tr, evs) ==
  IF tr.pc = "return" THEN Settle(t, FALSE, evs) ELSE Continue(t, tr, evs)

\* the code after an updateQueue call of a pipeline returned
AfterWrite(t, tr) ==
  LET id == t[1]
  IN  CASE tr.w = "inProgress" ->
             Continue(t, [tr EXCEPT !.pc = "reread"], {Ev("status", id, IN_PROGRESS, 0)})
        [] tr.w = "totalBytes" ->
             Continue(t, ChooseMode(tr, now), {})
        [] tr.w = "chunkProgress" ->
             Continue(t, EnterChunks([tr EXCEPT !.prog = tr.off + tr.got], now),
                      {Ev("progress", id, NONE, tr.off + tr.got)})
        [] tr.w = "fullProgress" ->
             Continue(t, [tr EXCEPT !.pc = "read", !.prog = tr.got],
                      {Ev("progress", id, NONE, tr.got)})
        [] tr.w = "complete" ->
             Settle(t, TRUE, {Ev("complete", id, ResolveMime(tr.reg), 0)})
        [] tr.w = "paused" ->
             Settle(t, TRUE, {Ev("status", id, PAUSED, 0)})
        [] tr.w = "failed" ->
             \* { id, error, retryCount }: the payload has no willRetry
             Settle(t, TRUE, {Ev("error", id, "willRetry: undefined", tr.rc)})
        [] tr.w = "retry" ->
             Continue(t, [tr EXCEPT !.pc = "sleep",
                                    !.delay = backoffDelay(tr.rc - 1)], {})
        [] tr.w = "deferred" ->
             Settle(t, FALSE, {Ev("deferred", id, "insufficient-storage", 0)})

\* the storage estimates the host may report: an empty origin, a full one
Roomy == { [usage |-> 0, quota |-> 10 * CHUNK_SIZE] }
Estimates == Roomy \cup { [usage |-> 9 * CHUNK_SIZE, quota |-> 10 * CHUNK_SIZE] }
\* ... and what getStorageEstimate returns without navigator.storage.estimate
NoStorageApi == { [usage |-> 0, quota |-> Infinity] }

\* drainQueue's dispatch: await hasEnoughSpace(needed), then deferred or
\* downloadSingleFile up to its first dbGet (the controller is registered)
SpaceCheck(t, S) ==
  /\ tasks[t].pc = "space"
  /\ \E est \in S :
       IF hasEnoughSpace(tasks[t].need, est)
       THEN /\ tasks' = [tasks EXCEPT ![t].pc = "readRetry", ![t].est = est,
                                       ![t].missed = FALSE]
            /\ active' = [active EXCEPT ![t[1]] = t[2]]
            /\ UNCHANGED << ctxs, drivers, wakeResolve, work >>
            /\ out' = Quiet
       ELSE Continue(t, Write([tasks[t] EXCEPT !.est = est, !.missed = FALSE],
                              "deferred"), {})
  /\ UNCHANGED << registry, queue, loopRunning, api, online, monitoring, now, budget >>

\* let queueEntry = await dbGet(...); let retryCount = queueEntry?.retryCount ?? 0
ReadRetry(t) ==
  /\ tasks[t].pc = "readRetry"
  /\ LET row == dbGet(queue, t[1])
         rc  == IF row = <<>> THEN 0 ELSE row[1].retryCount
     IN  Advance(t, LoopHead([tasks[t] EXCEPT !.rc = rc]), {})
  /\ UNCHANGED << registry, queue, loopRunning, api, online, monitoring, now, budget >>

\* updateQueue: const entry = await dbGet(...)
UqGet(t) ==
  /\ tasks[t].pc = "uqGet"
  /\ LET row == dbGet(queue, t[1])
     IN  IF row = <<>>
         THEN AfterWrite(t, tasks[t])
         ELSE Continue(t, [tasks[t] EXCEPT !.pc = "uqPut", !.rd = row], {})
  /\ UNCHANGED << registry, queue, loopRunning, api, online, monitoring, now, budget >>

\* updateQueue: await dbPut(..., { ...entry, ...patch })
UqPut(t) ==
  /\ tasks[t].pc = "uqPut"
  /\ queue' = dbPut(queue, t[1], Merge(tasks[t].rd[1], PatchOf(tasks[t])))
  /\ AfterWrite(t, [tasks[t] EXCEPT !.rd = <<>>])
  /\ UNCHANGED << registry, loopRunning, api, online, monitoring, now, budget >>

\* the re-read of the queue row: byteOffset and totalBytes of this attempt
Reread(t) ==
  /\ tasks[t].pc = "reread"
  /\ LET row == dbGet(queue, t[1])
         off == IF row = <<>> THEN 0 ELSE row[1].byteOffset
         qtb == IF row = <<>> THEN NULL ELSE row[1].totalBytes
         tr  == [tasks[t] EXCEPT !.off = off, !.got = 0, !.head = NONE, !.prog = NULL,
                                 !.tb = Coalesce(qtb, tasks[t].reg.totalBytes)]
     IN  IF off = 0
         THEN Continue(t, [tr EXCEPT !.pc = "probe", !.range = FALSE], {})
         ELSE Continue(t, ChooseMode([tr EXCEPT !.range = TRUE], now), {})
  /\ UNCHANGED << registry, queue, loopRunning, api, online, monitoring, now, budget >>

\* probeFile: the HEAD request; any failure, an abort too, is swallowed
Probe(t) ==
  /\ tasks[t].pc = "probe"
  /\ LET tr  == tasks[t]
         url == tr.reg.downloadUrl
     IN  \E res \in {"ok", "error"} :
           /\ tr.aborted => res = "error"
           /\ IF res = "ok" /\ Truthy(HeaderLength(url))
              THEN Continue(t, Write([tr EXCEPT !.range = AcceptsRanges(url),
                                                !.tb = HeaderLength(url),
                                                !.head = res],
                                     "totalBytes"), {})
              ELSE Continue(t, ChooseMode([tr EXCEPT !.range = res = "ok" /\ AcceptsRanges(url),
                                                     !.head = res], now), {})
  /\ UNCHANGED << registry, queue, loopRunning, api, online, monitoring, now, budget >>

\* the bytes a Range request bytes=offset-end yields
RangeLength(url, offset, totalBytes) ==
  LET end  == IF offset + CHUNK_SIZE - 1 < totalBytes - 1
              THEN offset + CHUNK_SIZE - 1 ELSE totalBytes - 1
      last == IF end < ContentLength(url) - 1 THEN end ELSE ContentLength(url) - 1
  IN  last - offset + 1

\* if (!response.ok && response.status !== 206) throw: 200 and 206 pass
Accepted(status) == status \in {"200", "206"}

\* the answers a Range request may get
Answers(url) == IF MayIgnoreRange(url) THEN {"206", "200", "error"} ELSE {"206", "error"}

\* downloadInChunks: one Range request and its body, pushed to chunks[]
Chunk(t) ==
  /\ tasks[t].pc = "chunk"
  /\ LET tr  == [tasks[t] EXCEPT !.head = NONE]
         url == tr.reg.downloadUrl
         n(res) == IF res = "200" THEN ContentLength(url)
                   ELSE RangeLength(url, tr.off + tr.got, tr.tb)
     IN  IF tr.aborted
         THEN Continue(t, AbortPath(tr), {})
         ELSE \E res \in Answers(url) :
                IF Accepted(res) /\ n(res) > 0
                THEN Continue(t, Write([tr EXCEPT !.got = tr.got + n(res), !.last = res],
                                       "chunkProgress"), {})
                ELSE Continue(t, ErrorPath([tr EXCEPT !.last = res]),
                              ErrorEvents(t, tr))
  /\ UNCHANGED << registry, queue, loopRunning, api, online, monitoring, now, budget >>

\* downloadFull: the GET request up to the response headers
Get(t) ==
  /\ tasks[t].pc = "get"
  /\ LET tr == [tasks[t] EXCEPT !.head = NONE]
     IN  IF tr.aborted
         THEN Continue(t, AbortPath(tr), {})
         ELSE \E res \in {"ok", "error"} :
                IF res = "ok"
                THEN Continue(t, [tr EXCEPT !.pc = "read"], {})
                ELSE Continue(t, ErrorPath(tr), ErrorEvents(t, tr))
  /\ UNCHANGED << registry, queue, loopRunning, api, online, monitoring, now, budget >>

\* downloadFull: reader.read(); the body arrives in one piece, then done
Read(t) ==
  /\ tasks[t].pc = "read"
  /\ LET tr  == tasks[t]
         len == ContentLength(tr.reg.downloadUrl)
     IN  IF tr.aborted
         THEN Continue(t, AbortPath(tr), {})
         ELSE IF tr.got < len
         THEN \E res \in {"ok", "error"} :
                IF res = "ok"
                THEN Continue(t, Write([tr EXCEPT !.got = len], "fullProgress"), {})
                ELSE Continue(t, ErrorPath(tr), ErrorEvents(t, tr))
         ELSE Continue(t, Success(tr, now), {})
  /\ UNCHANGED << registry, queue, loopRunning, api, online, monitoring, now, budget >>

\* await sleep(delay), then the head of the loop
Sleep(t) ==
  /\ tasks[t].pc = "sleep"
  /\ Advance(t, LoopHead([tasks[t] EXCEPT !.delay = 0]), {})
  /\ UNCHANGED << registry, queue, loopRunning, api, online, monitoring, now, budget >>


\* ------------------------------------------------------------------ aborts

\* the await a pipeline stands at: a request, the sleep, or the updateQueue
\* call it has under way
StandsAt(tr) == IF tr.pc \in {"uqGet", "uqPut"} THEN tr.w ELSE tr.pc

\* ctrl.abort(): the signal is aborted, the pending request is rejected
Abort(tr) ==
  IF tr.aborted THEN tr ELSE [tr EXCEPT !.aborted = TRUE, !.cut = StandsAt(tr)]

\* an item in the storage pre-check has no controller in _activeDownloads:
\* a cancellation passes it by
Miss(tr) == IF tr.pc = "space" THEN [tr EXCEPT !.missed = TRUE] ELSE tr

\* _activeDownloads.get(id)?.abort(): the signal of the mapped controller
AbortOne(tk, ac, id) ==
  [key \in TaskKeys |->
     IF key[1] = id /\ ac[id] = key[2] /\ tk[key].pc \notin {"free", "space"}
     THEN Abort(tk[key])
     ELSE IF key[1] = id THEN Miss(tk[key]) ELSE tk[key]]

\* for (const [id, ctrl] of _activeDownloads) { ctrl.abort(); ... }
AbortEvery(tk, ac) ==
  [key \in TaskKeys |->
     IF ac[key[1]] = key[2] /\ tk[key].pc \notin {"free", "space"}
     THEN Abort(tk[key]) ELSE Miss(tk[key])]

NoneActive == [id \in Ids |-> 0]

\* the ids whose pipeline abortAllDownloads cancels
Cancelled(tk, ac) ==
  { id \in Ids : ac[id] /= 0 /\ tk[<< id, ac[id] >>].pc \notin {"free", "space"}
                             /\ ~tk[<< id, ac[id] >>].aborted }

\* ------------------------------------------------------ the loop (drivers)

\* the rows of a snapshot with a given status
WithStatus(rows, st) == LET Is(r) == r.row.status = st IN SelectSeq(rows, Is)

\* the offline branch from the head of scan: abort the next in-progress row
\* and start its updateQueue, or emit connectivity and wait for a wake
OffNext(d, scan) ==
  IF scan = <<>>
  THEN /\ drivers' = [drivers EXCEPT ![d] = [@ EXCEPT !.pc = "wait", !.scan = <<>>, !.rd = <<>>]]
       /\ wakeResolve' = d
       /\ out' = Emit({Ev("connectivity", NONE, "offline", 0)})
       /\ UNCHANGED << tasks, active >>
  ELSE /\ drivers' = [drivers EXCEPT ![d] = [@ EXCEPT !.pc = "offGet", !.scan = scan, !.rd = <<>>]]
       /\ tasks' = AbortOne(tasks, active, Head(scan).id)
       /\ active' = [active EXCEPT ![Head(scan).id] = 0]
       /\ out' = Quiet
       /\ UNCHANGED wakeResolve

\* offline branch: const allQueue = await dbGetAll(STORES.DOWNLOAD_QUEUE)
DrvOffRead(d) ==
  /\ drivers[d].pc = "offRead"
  /\ OffNext(d, WithStatus(dbGetAll(queue), IN_PROGRESS))
  /\ UNCHANGED << registry, queue, loopRunning, ctxs, api, online, monitoring, now, budget, work >>

\* offline branch, updateQueue: dbGet
DrvOffGet(d) ==
  /\ drivers[d].pc = "offGet"
  /\ LET row == dbGet(queue, Head(drivers[d].scan).id)
     IN  IF row = <<>>
         THEN OffNext(d, Tail(drivers[d].scan))
         ELSE /\ drivers' = [drivers EXCEPT ![d] = [@ EXCEPT !.pc = "offPut", !.rd = row]]
              /\ out' = Quiet
              /\ UNCHANGED << tasks, active, wakeResolve >>
  /\ UNCHANGED << registry, queue, loopRunning, ctxs, api, online, monitoring, now, budget, work >>

\* offline branch, updateQueue: dbPut
DrvOffPut(d) ==
  /\ drivers[d].pc = "offPut"
  /\ queue' = dbPut(queue, Head(drivers[d].scan).id, Merge(drivers[d].rd[1], OfflinePatch))
  /\ OffNext(d, Tail(drivers[d].scan))
  /\ UNCHANGED << registry, loopRunning, ctxs, api, online, monitoring, now, budget, work >>

\* evaluateExpiry: the rows of the snapshot from the first that is complete
\* and past its expiresAt at clock value t
RECURSIVE FromExpired(_, _)
FromExpired(scan, t) ==
  IF scan = <<>> THEN <<>>
  ELSE IF Head(scan).row.status = COMPLETE /\ isExpired(Head(scan).row.expiresAt, t)
  THEN scan
  ELSE FromExpired(Tail(scan), t)

\* evaluateExpiry from the head of scan, with the ids pushed so far: the
\* next flip, or "return expiredIds" and on to the two dbGetAll of drainQueue
ExpNext(d, scan, ids) ==
  LET s == FromExpired(scan, now)
  IN  [drivers EXCEPT ![d] =
         IF s = <<>> THEN [@ EXCEPT !.pc = "snap", !.scan = <<>>, !.rd = <<>>,
                                    !.expiredIds = ids]
         ELSE [@ EXCEPT !.pc = "expPut", !.scan = s, !.rd = <<>>, !.expiredIds = ids]]

\* evaluateExpiry: const allQueue = await dbGetAll(STORES.DOWNLOAD_QUEUE)
DrvExpRead(d) ==
  /\ drivers[d].pc = "expRead"
  /\ drivers' = ExpNext(d, dbGetAll(queue), <<>>)
  /\ out' = Quiet
  /\ UNCHANGED << registry, queue, loopRunning, wakeResolve, active, ctxs, tasks, api,
                  online, monitoring, now, budget, work >>

\* evaluateExpiry: dbPut of the snapshot row with status expired
DrvExpPut(d) ==
  /\ drivers[d].pc = "expPut"
  /\ queue' = dbPut(queue, Head(drivers[d].scan).id,
                    Merge(Head(drivers[d].scan).row, ExpiredPatch))
  /\ drivers' = [drivers EXCEPT ![d].pc = "expSyncGet"]
  /\ out' = Quiet
  /\ UNCHANGED << registry, loopRunning, wakeResolve, active, ctxs, tasks, api,
                  online, monitoring, now, budget, work >>

\* evaluateExpiry, syncStatusToRegistry: dbGet
DrvExpSyncGet(d) ==
  /\ drivers[d].pc = "expSyncGet"
  /\ LET row == dbGet(registry, Head(drivers[d].scan).id)
     IN  IF row = <<>>
         THEN /\ drivers' = ExpNext(d, Tail(drivers[d].scan),
                                 Append(drivers[d].expiredIds, Head(drivers[d].scan).id))
              /\ out' = Emit({Ev("expired", Head(drivers[d].scan).id, NONE, 0)})
         ELSE /\ drivers' = [drivers EXCEPT ![d] = [@ EXCEPT !.pc = "expSyncPut", !.rd = row]]
              /\ out' = Quiet
  /\ UNCHANGED << registry, queue, loopRunning, wakeResolve, active, ctxs, tasks, api,
                  online, monitoring, now, budget, work >>

\* evaluateExpiry, syncStatusToRegistry: dbPut; then the expired event
DrvExpSyncPut(d) ==
  /\ drivers[d].pc = "expSyncPut"
  /\ registry' = dbPut(registry, Head(drivers[d].scan).id,
                       Merge(drivers[d].rd[1], ExpiredPatch))
  /\ drivers' = ExpNext(d, Tail(drivers[d].scan),
                                 Append(drivers[d].expiredIds, Head(drivers[d].scan).id))
  /\ out' = Emit({Ev("expired", Head(drivers[d].scan).id, NONE, 0)})
  /\ UNCHANGED << queue, loopRunning, wakeResolve, active, ctxs, tasks, api,
                  online, monitoring, now, budget, work >>

\* the statuses drainQueue selects
EligibleStatuses == {PENDING, IN_PROGRESS, PAUSED, DEFERRED, EXPIRED}

Eligible(row) == row.status \in EligibleStatuses

\* registryMap.get(id)?.priority ?? 10
PriorityOf(item) == IF item.reg = <<>> THEN DEFAULT_PRIORITY ELSE item.reg[1].priority

\* a selection left in the order of the queue scan
ScanOrder(s) == s

\* Array.prototype.sort by priority: ascending, stable
RECURSIVE SortByPriority(_)
SortByPriority(s) ==
  IF s = <<>> THEN <<>>
  ELSE LET x      == s[Len(s)]
           front  == SortByPriority(SubSeq(s, 1, Len(s) - 1))
           NotAfter(y) == PriorityOf(y) <= PriorityOf(x)
           After(y)    == PriorityOf(y) > PriorityOf(x)
       IN  SelectSeq(front, NotAfter) \o << x >> \o SelectSeq(front, After)

\* the selection of a drain cycle out of the two snapshots
Selection(reg, que) ==
  LET rows == dbGetAll(que)
      El(r) == Eligible(r.row)
      el   == SelectSeq(rows, El)
  IN  SortByPriority([i \in 1 .. Len(el) |->
                        [id  |-> el[i].id,
                         reg |-> dbGet(reg, el[i].id),
                         qtb |-> el[i].row.totalBytes]])

\* the first free closure slot, 0 if none
FreeCtxId ==
  IF \E c \in CtxIds : ctxs[c] = FreeCtx
  THEN CHOOSE c \in CtxIds : ctxs[c] = FreeCtx /\ \A b \in CtxIds : ctxs[b] = FreeCtx => c <= b
  ELSE 0

\* drainQueue: the two dbGetAll, the selection, and the first runNext
DrvSnap(d) ==
  /\ drivers[d].pc = "snap"
  /\ LET sel == Selection(registry, queue)
     IN  IF sel = <<>>
         THEN /\ drivers' = [drivers EXCEPT ![d] = AfterDrain(@, loopRunning)]
              /\ wakeResolve' = IF loopRunning THEN d ELSE wakeResolve
              /\ UNCHANGED << tasks, active, ctxs, work >>
         ELSE /\ FreeCtxId /= 0
              /\ RunNext(FreeCtxId,
                         [ctxs EXCEPT ![FreeCtxId] =
                            [q |-> sel, inFlight |-> 0, conc |-> drivers[d].conc, owner |-> d]],
                         tasks, active,
                         [drivers EXCEPT ![d] = [@ EXCEPT !.pc = "drain", !.ctx = FreeCtxId,
                                                          !.expiredIds = <<>>]],
                         wakeResolve)
  /\ out' = Quiet
  /\ UNCHANGED << registry, queue, loopRunning, api, online, monitoring, now, budget >>


\* ------------------------------------------------------------ registerFile

Spend(k) == [budget EXCEPT ![k] = @ - 1]

\* the ids of a sequence of entries or rows
IdsOf(seq) == [i \in 1 .. Len(seq) |-> seq[i].id]

\* registerFiles from its second loop on, having emitted evs: the call of
\* registerFile for the next entry, up to its first dbGet, or the return of
\* { registered, removed }
RegisterFilesLoop(a, evs) ==
  IF a.todo = <<>>
  THEN /\ api' = IdleApi
       /\ out' = Return(evs, Ret("registerFiles", NONE,
                                  [registered |-> IdsOf(a.entries), removed |-> a.removed]))
  ELSE /\ api' = [IdleApi EXCEPT !.op = "registerFiles", !.pc = "register", !.batch = TRUE,
                                 !.entries = a.entries, !.todo = a.todo,
                                 !.removed = a.removed]
       /\ out' = Emit(evs)

\* registerFile returns r having emitted evs: to its caller, or to the loop
\* of registerFiles
RegisterFileReturns(a, evs, r) ==
  IF a.batch
  THEN RegisterFilesLoop(a, evs)
  ELSE /\ api' = IdleApi
       /\ out' = Return(evs, r)

\* the tail of the two writing branches: emit('registered'), _notifyNewWork()
Registered(id, reason) ==
  /\ RegisterFileReturns(api, {Ev("registered", id, reason, 0)},
                         Ret("registerFile", id, reason))
  /\ drivers' = NotifyDrivers(drivers, wakeResolve, loopRunning, isOnline)
  /\ wakeResolve' = 0
  /\ work' = [work EXCEPT ![id] = "registered"]

\* registerFile(e) for a valid entry e of E, up to
\* "const existing = await dbGet(STORES.REGISTRY, entry.id)"
\* an entry, by the JavaScript type and range of each property
\* validateEntry looks at: the shape of a well-formed one
ValidShape ==
  [ object |-> TRUE, id |-> "string", url |-> "string", mime |-> "undefined",
    version |-> "natural", ttl |-> "undefined" ]

\* what a caller may pass as entry: a well-formed entry with one property
\* of another type or range, and a value that is not an object
Shapes ==
  {[ValidShape EXCEPT !.object = FALSE]}
    \cup {[ValidShape EXCEPT !.id = k] : k \in {"string", "empty", "undefined", "number"}}
    \cup {[ValidShape EXCEPT !.url = k] : k \in {"string", "empty", "undefined", "number"}}
    \cup {[ValidShape EXCEPT !.mime = k] : k \in {"undefined", "null", "string", "number"}}
    \cup {[ValidShape EXCEPT !.version = k] :
             k \in {"natural", "negative", "fraction", "string", "undefined"}}
    \cup {[ValidShape EXCEPT !.ttl = k] :
             k \in {"undefined", "nonnegative", "negative", "string", "null"}}

\* validateEntry: the message of the Error it throws, or "ok"
validateEntry(sh) ==
  IF ~sh.object THEN "must be an object"
  ELSE IF sh.id /= "string" THEN "must have a string id"
  ELSE IF sh.url /= "string" THEN "must have a string downloadUrl"
  ELSE IF sh.mime = "number" THEN "mimeType must be a string or omitted"
  ELSE IF sh.version /= "natural" THEN "version must be a non-negative integer"
  ELSE IF sh.ttl \in {"negative", "string", "null"}
  THEN "ttl must be a non-negative number"
  ELSE "ok"

\* the outcome of a call made with an entry of shape sh
Rejected(sh, outcome) == [shape |-> sh, outcome |-> outcome]

\* registerFile(entry) with an entry validateEntry throws for: the catch
\* block builds { id: id, ... }, and no scope of the module declares id; the
\* read is a ReferenceError, with which the returned promise rejects, unless
\* the global object of the host has a property id: then the error event
\* is emitted and the promise resolves
RegisterFileInvalid ==
  /\ api.op = "idle"
  /\ budget.register > 0
  /\ \E sh \in Shapes, globalId \in BOOLEAN :
       /\ validateEntry(sh) /= "ok"
       /\ out' = IF globalId
                 THEN Return({Ev("error", NONE, validateEntry(sh), 0)},
                             Ret("registerFile", NONE, Rejected(sh, "done")))
                 ELSE Return({}, Ret("registerFile", NONE, Rejected(sh, "throw")))
  /\ budget' = Spend("register")
  /\ UNCHANGED << registry, queue, loopRunning, wakeResolve, active, drivers, ctxs,
                  tasks, api, online, monitoring, now, work >>

RegisterFileCall(E) ==
  /\ api.op = "idle"
  /\ budget.register > 0
  /\ \E e \in E :
       api' = [IdleApi EXCEPT !.op = "registerFile", !.pc = "getQueue", !.id = e.id,
                              !.e = e, !.rd = dbGet(registry, e.id)]
  /\ budget' = Spend("register")
  /\ out' = Quiet
  /\ UNCHANGED << registry, queue, loopRunning, wakeResolve, active, drivers, ctxs,
                  tasks, online, monitoring, now, work >>

\* "const existingQueue = await dbGet(...)", then the branch on existing and
\* on the version; a version that is not higher returns at once
RegisterFileGetQueue ==
  /\ api.op = "registerFile" /\ api.pc = "getQueue"
  /\ IF api.rd = <<>>
     THEN /\ api' = [api EXCEPT !.pc = "putRegistryNew", !.rq = dbGet(queue, api.id)]
          /\ out' = Quiet
     ELSE IF VersionIncreased(api.e, api.rd[1])
     THEN /\ api' = [api EXCEPT !.pc = "putRegistry", !.rq = dbGet(queue, api.id)]
          /\ out' = Quiet
     ELSE RegisterFileReturns(api, {}, Ret("registerFile", api.id, "noop"))
  /\ UNCHANGED << registry, queue, loopRunning, wakeResolve, active, drivers, ctxs,
                  tasks, online, monitoring, now, budget, work >>

\* await dbPut(STORES.REGISTRY, registryRecord), of either writing branch
RegisterFilePutRegistry ==
  /\ api.op = "registerFile" /\ api.pc \in {"putRegistry", "putRegistryNew"}
  /\ registry' = dbPut(registry, api.id, registryRecord(api.e, api.rd))
  /\ api' = [api EXCEPT !.pc = IF api.pc = "putRegistry" THEN "putQueue" ELSE "putQueueNew"]
  /\ out' = Quiet
  /\ UNCHANGED << queue, loopRunning, wakeResolve, active, drivers, ctxs,
                  tasks, online, monitoring, now, budget, work >>

\* await dbPut(STORES.DOWNLOAD_QUEUE, ...): the reset row of a version bump
\* (then syncStatusToRegistry), or the fresh row of a new entry (then done)
RegisterFilePutQueue ==
  /\ api.op = "registerFile" /\ api.pc \in {"putQueue", "putQueueNew"}
  /\ IF api.pc = "putQueue"
     THEN /\ queue' = dbPut(queue, api.id, BumpQueueEntry(api.rq))
          /\ api' = [api EXCEPT !.pc = "syncGet"]
          /\ out' = Quiet
          /\ UNCHANGED << drivers, wakeResolve, work >>
     ELSE /\ queue' = dbPut(queue, api.id, makeQueueEntry)
          /\ Registered(api.id, "new")
  /\ UNCHANGED << registry, loopRunning, active, ctxs, tasks, online, monitoring,
                  now, budget >>

\* version bump, syncStatusToRegistry: dbGet
RegisterFileSyncGet ==
  /\ api.op = "registerFile" /\ api.pc = "syncGet"
  /\ IF dbGet(registry, api.id) = <<>>
     THEN Registered(api.id, "version-updated")
     ELSE /\ api' = [api EXCEPT !.pc = "syncPut", !.rd = dbGet(registry, api.id)]
          /\ out' = Quiet
          /\ UNCHANGED << drivers, wakeResolve, work >>
  /\ UNCHANGED << registry, queue, loopRunning, active, ctxs, tasks, online, monitoring,
                  now, budget >>

\* version bump, syncStatusToRegistry: dbPut; then the event and the wake
RegisterFileSyncPut ==
  /\ api.op = "registerFile" /\ api.pc = "syncPut"
  /\ registry' = dbPut(registry, api.id, Merge(api.rd[1], StatusReset))
  /\ Registered(api.id, "version-updated")
  /\ UNCHANGED << queue, loopRunning, active, ctxs, tasks, online, monitoring,
                  now, budget >>

\* ----------------------------------------------------------- registerFiles

\* a first loop that does not look at the protected flag
ToRemoveProtectedToo(existingAll, entries) ==
  LET incomingIds == { entries[i].id : i \in 1 .. Len(entries) }
      Gone(r) == r.id \notin incomingIds
  IN  SelectSeq(existingAll, Gone)

\* the rows of existingAll that the first loop removes
ToRemove(existingAll, entries) ==
  LET incomingIds == { entries[i].id : i \in 1 .. Len(entries) }
      Gone(r) == r.id \notin incomingIds /\ ~r.row.protected
  IN  SelectSeq(existingAll, Gone)

\* registerFiles from the head of scan, having emitted evs: the next removal,
\* or the second loop
RegisterFilesRemoveNext(a, scan, evs) ==
  IF scan = <<>>
  THEN RegisterFilesLoop(a, evs)
  ELSE /\ api' = [a EXCEPT !.pc = "deleteRegistry", !.scan = scan, !.id = Head(scan).id]
       /\ out' = Emit(evs)

\* registerFiles(entries) for an array of valid entries of A:
\* "const existingAll = await dbGetAll(STORES.REGISTRY)"
RegisterFilesCall(A) ==
  /\ api.op = "idle"
  /\ budget.sync > 0
  /\ \E entries \in A :
       RegisterFilesRemoveNext(
         [IdleApi EXCEPT !.op = "registerFiles", !.batch = TRUE, !.entries = entries,
                         !.todo = entries],
         ToRemove(dbGetAll(registry), entries), {})
  /\ budget' = Spend("sync")
  /\ UNCHANGED << registry, queue, loopRunning, wakeResolve, active, drivers, ctxs,
                  tasks, online, monitoring, now, work >>

\* first loop: await dbDelete(STORES.REGISTRY, existing.id)
RegisterFilesDeleteRegistry ==
  /\ api.op = "registerFiles" /\ api.pc = "deleteRegistry"
  /\ registry' = dbDelete(registry, api.id)
  /\ api' = [api EXCEPT !.pc = "deleteQueue"]
  /\ out' = Quiet
  /\ UNCHANGED << queue, loopRunning, wakeResolve, active, drivers, ctxs,
                  tasks, online, monitoring, now, budget, work >>

\* first loop: await dbDelete(STORES.DOWNLOAD_QUEUE, existing.id);
\* removed.push(id); emit('deleted')
RegisterFilesDeleteQueue ==
  /\ api.op = "registerFiles" /\ api.pc = "deleteQueue"
  /\ queue' = dbDelete(queue, api.id)
  /\ RegisterFilesRemoveNext([api EXCEPT !.removed = Append(api.removed, api.id)],
                             Tail(api.scan), {Ev("deleted", api.id, "removed", 0)})
  /\ work' = [work EXCEPT ![api.id] = "none"]
  /\ UNCHANGED << registry, loopRunning, wakeResolve, active, drivers, ctxs,
                  tasks, online, monitoring, now, budget >>

\* the rejection of a promise with an error of that name
Failed(name) == [failed |-> name]

\* the shape of an entry of an array: one without downloadUrl is malformed
EntryShape(e) ==
  [ValidShape EXCEPT !.url = IF e.downloadUrl = NONE THEN "undefined" ELSE "string"]

\* second loop: registerFile(entry) with an entry validateEntry throws for;
\* the catch block of registerFile reads id (see RegisterFileInvalid): the
\* ReferenceError rejects registerFiles, or the error event is emitted and
\* the loop goes on
RegisterFilesReject ==
  /\ api.op = "registerFiles" /\ api.pc = "register"
  /\ validateEntry(EntryShape(Head(api.todo))) /= "ok"
  /\ \E globalId \in BOOLEAN :
       IF globalId
       THEN RegisterFilesLoop([api EXCEPT !.todo = Tail(api.todo)],
                              {Ev("error", NONE, validateEntry(EntryShape(Head(api.todo))), 0)})
       ELSE /\ api' = IdleApi
            /\ out' = Return({}, Ret("registerFiles", NONE, Failed("ReferenceError")))
  /\ UNCHANGED << registry, queue, loopRunning, wakeResolve, active, drivers, ctxs,
                  tasks, online, monitoring, now, budget, work >>

\* second loop: registerFile(entry) up to
\* "const existing = await dbGet(STORES.REGISTRY, entry.id)"
RegisterFilesRegister ==
  /\ api.op = "registerFiles" /\ api.pc = "register"
  /\ validateEntry(EntryShape(Head(api.todo))) = "ok"
  /\ LET e == Head(api.todo)
     IN  api' = [api EXCEPT !.op = "registerFile", !.pc = "getQueue", !.id = e.id,
                            !.e = e, !.rd = dbGet(registry, e.id), !.rq = <<>>,
                            !.scan = <<>>, !.todo = Tail(api.todo)]
  /\ out' = Quiet
  /\ UNCHANGED << registry, queue, loopRunning, wakeResolve, active, drivers, ctxs,
                  tasks, online, monitoring, now, budget, work >>

\* -------------------------------------------------------------- deleteFile

\* a test that asks for the option and for an unprotected entry
ShouldRemoveUnprotectedOnly(removeProtected, registryEntry) ==
  removeProtected /\ ~registryEntry.protected

\* removeProtected || !registryEntry.protected
ShouldRemoveRegistry(removeProtected, registryEntry) ==
  removeProtected \/ ~registryEntry.protected

Deleted(id, removed) ==
  /\ api' = IdleApi
  /\ out' = Return({Ev("deleted", id, IF removed THEN "removed" ELSE "kept", 0)},
                   Ret("deleteFile", id, IF removed THEN "removed" ELSE "kept"))

\* deleteFile(id, {removeProtected}): dbGet of the registry row, the throw for
\* an unknown id, abortDownload(id), and the first store request of the branch
DeleteFileCall(I, RP) ==
  /\ api.op = "idle"
  /\ budget.delete > 0
  /\ \E id \in I, rp \in RP :
       IF dbGet(registry, id) = <<>>
       THEN /\ api' = IdleApi
            /\ out' = Return({}, Ret("deleteFile", id, "throw"))
            /\ UNCHANGED << tasks, active >>
       ELSE /\ api' = [IdleApi EXCEPT !.op = "deleteFile", !.id = id, !.rp = rp,
                          !.pc = IF ShouldRemoveRegistry(rp, registry[id])
                                 THEN "deleteRegistry" ELSE "resetGet"]
            /\ tasks' = AbortOne(tasks, active, id)
            /\ active' = [active EXCEPT ![id] = 0]
            /\ out' = Quiet
  /\ budget' = Spend("delete")
  /\ UNCHANGED << registry, queue, loopRunning, wakeResolve, drivers, ctxs,
                  online, monitoring, now, work >>

\* await dbDelete(STORES.REGISTRY, id)
DeleteFileRegistry ==
  /\ api.op = "deleteFile" /\ api.pc = "deleteRegistry"
  /\ registry' = dbDelete(registry, api.id)
  /\ api' = [api EXCEPT !.pc = "deleteQueue"]
  /\ out' = Quiet
  /\ UNCHANGED << queue, loopRunning, wakeResolve, active, drivers, ctxs,
                  tasks, online, monitoring, now, budget, work >>

\* await dbDelete(STORES.DOWNLOAD_QUEUE, id); emit('deleted'); return
DeleteFileQueue ==
  /\ api.op = "deleteFile" /\ api.pc = "deleteQueue"
  /\ queue' = dbDelete(queue, api.id)
  /\ Deleted(api.id, TRUE)
  /\ work' = [work EXCEPT ![api.id] = "none"]
  /\ UNCHANGED << registry, loopRunning, wakeResolve, active, drivers, ctxs,
                  tasks, online, monitoring, now, budget >>

\* resetQueueEntry: const existing = await dbGet(...); if (!existing) return
DeleteFileResetGet ==
  /\ api.op = "deleteFile" /\ api.pc = "resetGet"
  /\ IF dbGet(queue, api.id) = <<>>
     THEN Deleted(api.id, FALSE)
     ELSE /\ api' = [api EXCEPT !.pc = "resetPut", !.rd = dbGet(queue, api.id)]
          /\ out' = Quiet
  /\ UNCHANGED << registry, queue, loopRunning, wakeResolve, active, drivers, ctxs,
                  tasks, online, monitoring, now, budget, work >>

\* resetQueueEntry: await dbPut(...); emit('deleted'); return
DeleteFileResetPut ==
  /\ api.op = "deleteFile" /\ api.pc = "resetPut"
  /\ queue' = dbPut(queue, api.id, ResetRow(api.rd[1]))
  /\ Deleted(api.id, FALSE)
  /\ work' = [work EXCEPT ![api.id] = "reset"]
  /\ UNCHANGED << registry, loopRunning, wakeResolve, active, drivers, ctxs,
                  tasks, online, monitoring, now, budget >>

\* ------------------------------------------------------------- retryFailed

\* retryFailed from the head of scan: the next updateQueue, or the wake
RetryNext(scan) ==
  IF scan = <<>>
  THEN /\ api' = IdleApi
       /\ drivers' = NotifyDrivers(drivers, wakeResolve, loopRunning, isOnline)
       /\ wakeResolve' = 0
       /\ out' = Return({}, Ret("retryFailed", NONE, "done"))
  ELSE /\ api' = [IdleApi EXCEPT !.op = "retryFailed", !.pc = "get", !.scan = scan,
                                 !.id = Head(scan).id]
       /\ out' = Quiet
       /\ UNCHANGED << drivers, wakeResolve >>

\* retryFailed(): dbGetAll, and the loop over the failed rows of the snapshot
RetryFailedCall ==
  /\ api.op = "idle"
  /\ budget.retry > 0
  /\ RetryNext(WithStatus(dbGetAll(queue), FAILED))
  /\ budget' = Spend("retry")
  /\ UNCHANGED << registry, queue, loopRunning, active, ctxs, tasks, online,
                  monitoring, now, work >>

\* retryFailed, updateQueue: dbGet
RetryFailedGet ==
  /\ api.op = "retryFailed" /\ api.pc = "get"
  /\ IF dbGet(queue, api.id) = <<>>
     THEN RetryNext(Tail(api.scan))
     ELSE /\ api' = [api EXCEPT !.pc = "put", !.rd = dbGet(queue, api.id)]
          /\ out' = Quiet
          /\ UNCHANGED << drivers, wakeResolve >>
  /\ UNCHANGED << registry, queue, loopRunning, active, ctxs, tasks, online,
                  monitoring, now, budget, work >>

\* retryFailed, updateQueue: dbPut
RetryFailedPut ==
  /\ api.op = "retryFailed" /\ api.pc = "put"
  /\ queue' = dbPut(queue, api.id, Merge(api.rd[1], RetryFailedPatch))
  /\ RetryNext(Tail(api.scan))
  /\ work' = [work EXCEPT ![api.id] = "requeued"]
  /\ UNCHANGED << registry, loopRunning, active, ctxs, tasks, online,
                  monitoring, now, budget >>


\* ------------------------------------------------- the synchronous calls

\* the first driver slot that is free, 0 if none
FreeDriver ==
  IF \E d \in DriverIds : drivers[d].pc = "dead"
  THEN CHOOSE d \in DriverIds :
         drivers[d].pc = "dead" /\ \A b \in DriverIds : drivers[b].pc = "dead" => d <= b
  ELSE 0

\* startDownloads({concurrency}): a no-op while the loop runs, else the flag
\* and a new loop, run up to its first await
StartDownloads(C) ==
  /\ api.op = "idle"
  /\ budget.start > 0
  /\ \E conc \in C :
       IF loopRunning
       THEN UNCHANGED << loopRunning, drivers >>
       ELSE /\ FreeDriver /= 0
            /\ loopRunning' = TRUE
            /\ drivers' = [drivers EXCEPT ![FreeDriver] =
                             LoopTop([DeadDriver EXCEPT !.conc = conc], TRUE, isOnline)]
  /\ budget' = Spend("start")
  /\ out' = Return({}, Ret("startDownloads", NONE, "done"))
  /\ UNCHANGED << registry, queue, wakeResolve, active, ctxs, tasks, api, online,
                  monitoring, now, work >>

\* stopDownloads(): the flag, the wake, abortAllDownloads(), emit('stopped')
StopDownloads ==
  /\ api.op = "idle"
  /\ budget.stop > 0
  /\ loopRunning' = FALSE
  /\ drivers' = NotifyDrivers(drivers, wakeResolve, FALSE, isOnline)
  /\ wakeResolve' = 0
  /\ tasks' = AbortEvery(tasks, active)
  /\ active' = NoneActive
  /\ budget' = Spend("stop")
  /\ out' = Return({Ev("stopped", NONE, NONE, 0)}, Ret("stopDownloads", NONE, "done"))
  /\ UNCHANGED << registry, queue, ctxs, api, online, monitoring, now, work >>

\* abortDownload(id)
AbortDownload(I) ==
  /\ api.op = "idle"
  /\ budget.abort > 0
  /\ \E id \in I :
       /\ tasks' = AbortOne(tasks, active, id)
       /\ active' = [active EXCEPT ![id] = 0]
       /\ out' = Return({}, Ret("abortDownload", id, "done"))
  /\ budget' = Spend("abort")
  /\ UNCHANGED << registry, queue, loopRunning, wakeResolve, drivers, ctxs, api,
                  online, monitoring, now, work >>

\* abortAllDownloads()
AbortAllDownloads ==
  /\ api.op = "idle"
  /\ budget.abort > 0
  /\ tasks' = AbortEvery(tasks, active)
  /\ active' = NoneActive
  /\ budget' = Spend("abort")
  /\ out' = Return({}, Ret("abortAllDownloads", NONE, "done"))
  /\ UNCHANGED << registry, queue, loopRunning, wakeResolve, drivers, ctxs, api,
                  online, monitoring, now, work >>

\* startMonitoring(): startConnectivityMonitor installs the two handlers
StartMonitoring ==
  /\ api.op = "idle"
  /\ ~monitoring
  /\ monitoring' = TRUE
  /\ out' = Return({}, Ret("startMonitoring", NONE, "done"))
  /\ UNCHANGED << registry, queue, loopRunning, wakeResolve, active, drivers, ctxs,
                  tasks, api, online, now, budget, work >>

\* ---------------------------------------------------------- the environment

\* the browser goes offline: handleOffline, if the monitor listens
GoOffline ==
  /\ online
  /\ budget.edge > 0
  /\ online' = FALSE
  /\ IF monitoring
     THEN /\ tasks' = AbortEvery(tasks, active)
          /\ active' = NoneActive
          /\ work' = [id \in Ids |->
                        IF id \in Cancelled(tasks, active) THEN "offline" ELSE work[id]]
          /\ out' = Emit({Ev("connectivity", NONE, "offline", 0)})
     ELSE /\ out' = Quiet
          /\ UNCHANGED << tasks, active, work >>
  /\ budget' = Spend("edge")
  /\ UNCHANGED << registry, queue, loopRunning, wakeResolve, drivers, ctxs, api,
                  monitoring, now >>

\* the browser comes back online: handleOnline, if the monitor listens
GoOnline ==
  /\ ~online
  /\ online' = TRUE
  /\ IF monitoring
     THEN /\ drivers' = NotifyDrivers(drivers, wakeResolve, loopRunning, TRUE)
          /\ wakeResolve' = 0
          /\ out' = Emit({Ev("connectivity", NONE, "online", 0)})
     ELSE /\ out' = Quiet
          /\ UNCHANGED << drivers, wakeResolve >>
  /\ UNCHANGED << registry, queue, loopRunning, active, ctxs, tasks, api,
                  monitoring, now, budget, work >>

\* the clock advances
Tick ==
  /\ budget.tick > 0
  /\ now' = now + TickMs
  /\ budget' = Spend("tick")
  /\ out' = Quiet
  /\ UNCHANGED << registry, queue, loopRunning, wakeResolve, active, drivers, ctxs,
                  tasks, api, online, monitoring, work >>

\* ------------------------------------------------------------ the reads

\* retrieve(id): { data, mimeType }, or the throw
Retrieved(data, mimeType) ==
  [ok |-> TRUE, data |-> data, mimeType |-> mimeType, err |-> NONE]
Thrown(err) == [ok |-> FALSE, data |-> NoData, mimeType |-> NONE, err |-> err]

retrieve(id) ==
  IF dbGet(registry, id) = <<>> THEN Thrown("not-registered")
  ELSE IF dbGet(queue, id) = <<>> THEN Thrown("no-data")
  ELSE IF queue[id].status \notin READY_STATUSES \/ queue[id].data = NoData
  THEN Thrown("no-data")
  ELSE Retrieved(queue[id].data, queue[id].mimeType)

\* retrieve(id) called by the host: the two dbGet, then the value or the throw
Retrieve(I) ==
  /\ api.op = "idle"
  /\ \E id \in I : out' = Return({}, Ret("retrieve", id, retrieve(id)))
  /\ UNCHANGED << registry, queue, loopRunning, wakeResolve, active, drivers, ctxs,
                  tasks, api, online, monitoring, now, budget, work >>

\* isReady(id): the registry status if it is set, else the queue status
isReady(id) ==
  IF dbGet(registry, id) /= <<>> /\ registry[id].status /= NONE
  THEN registry[id].status \in READY_STATUSES
  ELSE dbGet(queue, id) /= <<>> /\ queue[id].status \in READY_STATUSES

\* getStatus(id).downloadStatus: reg.status ?? null
downloadStatus(id) ==
  IF dbGet(registry, id) = <<>> THEN NONE ELSE registry[id].status

\* ----------------------------------------------------------- specification

EmptyStore == [k \in {} |-> makeQueueEntry]

InitWith(b) ==
  /\ registry = EmptyStore
  /\ queue = EmptyStore
  /\ loopRunning = FALSE
  /\ wakeResolve = 0
  /\ active = NoneActive
  /\ drivers = [d \in DriverIds |-> DeadDriver]
  /\ ctxs = [c \in CtxIds |-> FreeCtx]
  /\ tasks = [t \in TaskKeys |-> FreeTask]
  /\ api = IdleApi
  /\ online = TRUE
  /\ monitoring = FALSE
  /\ now = TickMs
  /\ budget = b
  /\ work = [id \in Ids |-> "none"]
  /\ out = Quiet

\* a drain cycle without an expired row, and the wait after it
Drain ==
  \/ \E d \in DriverIds : DrvExpRead(d)
  \/ \E d \in DriverIds : DrvSnap(d)

\* evaluateExpiry flipping a row
Expiry ==
  \/ \E d \in DriverIds : DrvExpPut(d)
  \/ \E d \in DriverIds : DrvExpSyncGet(d)
  \/ \E d \in DriverIds : DrvExpSyncPut(d)

\* the offline branch of the loop with no row to pause
OfflineWait ==
  \E d \in DriverIds : DrvOffRead(d)

\* the offline branch of the loop
Offline ==
  \/ OfflineWait
  \/ \E d \in DriverIds : DrvOffGet(d)
  \/ \E d \in DriverIds : DrvOffPut(d)

\* a dispatched item whose resource is fetched with one GET: the storage
\* pre-check against an estimate of S, and downloadSingleFile
PipelineFull(S) ==
  \/ \E t \in TaskKeys : SpaceCheck(t, S)
  \/ \E t \in TaskKeys : ReadRetry(t)
  \/ \E t \in TaskKeys : UqGet(t)
  \/ \E t \in TaskKeys : UqPut(t)
  \/ \E t \in TaskKeys : Reread(t)
  \/ \E t \in TaskKeys : Probe(t)
  \/ \E t \in TaskKeys : Get(t)
  \/ \E t \in TaskKeys : Read(t)
  \/ \E t \in TaskKeys : Sleep(t)

\* a dispatched item, chunked transfers included
Pipeline(S) ==
  \/ PipelineFull(S)
  \/ \E t \in TaskKeys : Chunk(t)

\* registerFile of an entry of E, short of the last two steps of a version bump
RegisterNew(E) ==
  \/ RegisterFileCall(E)
  \/ RegisterFileGetQueue
  \/ RegisterFilePutRegistry
  \/ RegisterFilePutQueue

\* registerFile of an entry of E
RegisterFile(E) ==
  \/ RegisterNew(E)
  \/ RegisterFileSyncGet
  \/ RegisterFileSyncPut

\* deleteFile with either option
DeleteFile(I) ==
  \/ DeleteFileCall(I, BOOLEAN)
  \/ DeleteFileRegistry
  \/ DeleteFileQueue
  \/ DeleteFileResetGet
  \/ DeleteFileResetPut

\* registerFiles of an array of A
RegisterFiles(A) ==
  \/ RegisterFilesCall(A)
  \/ RegisterFilesDeleteRegistry
  \/ RegisterFilesDeleteQueue
  \/ RegisterFilesRegister
  \/ RegisterFileGetQueue
  \/ RegisterFilePutRegistry
  \/ RegisterFilePutQueue
  \/ RegisterFileSyncGet
  \/ RegisterFileSyncPut

RetryFailed ==
  \/ RetryFailedCall
  \/ RetryFailedGet
  \/ RetryFailedPut

NoBudget ==
  [ register |-> 0, delete |-> 0, start |-> 0, stop |-> 0, abort |-> 0,
    retry |-> 0, edge |-> 0, tick |-> 0, sync |-> 0 ]

\* "a": a protected large file with a TTL of one second
EntriesA == { Entry("a", v, "big", TRUE, 1, DEFAULT_PRIORITY, NULL) : v \in 1 .. MaxVersion }
\* "a" again, as a small file
EntriesS == { Entry("a", v, "small", TRUE, 1, DEFAULT_PRIORITY, NULL) : v \in 1 .. MaxVersion }
\* "b": a small unprotected file that never expires, ahead of "a" in priority
EntriesB == { Entry("b", v, "small", FALSE, 0, 1, NULL) : v \in 1 .. MaxVersion }

\* one file, registered and bumped while the loop runs and the clock
\* advances; retryFailed re-queues and wakes; storage is never short
InitRefresh ==
  InitWith([NoBudget EXCEPT !.register = MaxRegister, !.start = MaxStart,
                            !.retry = MaxRetry, !.tick = MaxTicks])
NextRefresh ==
  \/ Drain
  \/ Expiry
  \/ Pipeline(Roomy)
  \/ RegisterFile(EntriesA)
  \/ RetryFailed
  \/ StartDownloads({DEFAULT_CONCURRENCY})
  \/ Tick
SpecRefresh == InitRefresh /\ [][NextRefresh]_vars

\* one file whose transfer is cancelled, stopped, taken offline and resumed
InitCancel ==
  InitWith([NoBudget EXCEPT !.register = 1, !.start = MaxStart, !.stop = MaxStop,
                            !.abort = MaxAbort, !.retry = MaxRetry, !.edge = MaxEdges])
NextCancel ==
  \/ Drain
  \/ OfflineWait
  \/ Pipeline(Estimates)
  \/ RegisterNew({Entry("a", 1, "big", TRUE, 1, DEFAULT_PRIORITY, NULL)})
  \/ RetryFailed
  \/ StartDownloads({DEFAULT_CONCURRENCY})
  \/ StopDownloads
  \/ AbortDownload({"a"})
  \/ AbortAllDownloads
  \/ StartMonitoring
  \/ GoOffline
  \/ GoOnline
SpecCancel == InitCancel /\ [][NextCancel]_vars

\* one small file registered, bumped, cancelled, re-queued and deleted
InitLifecycle ==
  InitWith([NoBudget EXCEPT !.register = MaxRegister, !.start = MaxStart,
                            !.abort = MaxAbort, !.retry = MaxRetry,
                            !.delete = MaxDelete])
NextLifecycle ==
  \/ Drain
  \/ PipelineFull(Estimates)
  \/ RegisterFile(EntriesS)
  \/ DeleteFile({"a"})
  \/ RetryFailed
  \/ StartDownloads({DEFAULT_CONCURRENCY})
  \/ AbortDownload({"a"})
SpecLifecycle == InitLifecycle /\ [][NextLifecycle]_vars

\* two files registered while the loop runs
InitWake ==
  InitWith([NoBudget EXCEPT !.register = MaxRegister, !.start = MaxStart])
NextWake ==
  \/ Drain
  \/ Pipeline(Estimates)
  \/ RegisterFile(EntriesA \cup EntriesB)
  \/ StartDownloads({DEFAULT_CONCURRENCY})
SpecWake == InitWake /\ [][NextWake]_vars

\* "a" expires a second after its download, "b" never does
EntriesExpiry ==
  { Entry("a", 1, "small", TRUE, 1, DEFAULT_PRIORITY, NULL),
    Entry("b", 1, "small", FALSE, 0, 1, NULL) }

\* two files, one with a TTL, registered while the loop runs and the clock
\* advances; retryFailed re-queues and wakes
InitExpiry ==
  InitWith([NoBudget EXCEPT !.register = MaxRegister, !.start = MaxStart,
                            !.retry = MaxRetry, !.tick = MaxTicks])
NextExpiry ==
  \/ Drain
  \/ Expiry
  \/ PipelineFull(Roomy)
  \/ RegisterNew(EntriesExpiry)
  \/ RetryFailed
  \/ StartDownloads({DEFAULT_CONCURRENCY})
  \/ Tick
SpecExpiry == InitExpiry /\ [][NextExpiry]_vars

\* one small file while the loop is started, stopped and started again, one
\* transfer at a time
InitRestart ==
  InitWith([NoBudget EXCEPT !.register = 1, !.start = MaxStart + 1, !.stop = MaxStop])
NextRestart ==
  \/ Drain
  \/ PipelineFull(Roomy)
  \/ RegisterNew({Entry("a", 1, "small", TRUE, 1, DEFAULT_PRIORITY, NULL)})
  \/ StartDownloads({1})
  \/ StopDownloads
SpecRestart == InitRestart /\ [][NextRestart]_vars

\* the arrays a caller syncs the registry with: "a" protected, "b" not
Arrays ==
  LET A(v) == Entry("a", v, "small", TRUE, 1, DEFAULT_PRIORITY, NULL)
      B(v) == Entry("b", v, "small", FALSE, 0, 1, NULL)
  IN  { << >> }
      \cup { << A(v) >> : v \in 1 .. MaxVersion }
      \cup { << B(v) >> : v \in 1 .. MaxVersion }
      \cup { << A(v), B(w) >> : v, w \in 1 .. MaxVersion }

\* the registry synced with one array after another, the loop not started
InitSync ==
  InitWith([NoBudget EXCEPT !.sync = MaxSync])
NextSync ==
  RegisterFiles(Arrays)
SpecSync == InitSync /\ [][NextSync]_vars

\* "a" as a small file, protected or not
EntriesDelete ==
  { Entry("a", 1, "small", prot, 1, DEFAULT_PRIORITY, NULL) : prot \in BOOLEAN }

\* one small file, downloaded by the loop, re-queued and deleted twice
InitDelete ==
  InitWith([NoBudget EXCEPT !.register = 1, !.start = MaxStart,
                            !.retry = MaxRetry, !.delete = MaxDelete + 1])
NextDelete ==
  \/ Drain
  \/ PipelineFull(Roomy)
  \/ RegisterNew(EntriesDelete)
  \/ DeleteFile({"a"})
  \/ RetryFailed
  \/ StartDownloads({DEFAULT_CONCURRENCY})
SpecDelete == InitDelete /\ [][NextDelete]_vars

\* one small file with a TTL, downloaded, expired and refreshed, and read
\* by the host at any moment, as is an id that was never registered
InitRetrieve ==
  InitWith([NoBudget EXCEPT !.register = 1, !.start = MaxStart,
                            !.retry = MaxRetry, !.tick = MaxTicks])
NextRetrieve ==
  \/ Drain
  \/ Expiry
  \/ PipelineFull(Roomy)
  \/ RegisterNew({Entry("a", 1, "small", TRUE, 1, DEFAULT_PRIORITY, NULL)})
  \/ RetryFailed
  \/ StartDownloads({DEFAULT_CONCURRENCY})
  \/ Tick
  \/ Retrieve(Ids)
SpecRetrieve == InitRetrieve /\ [][NextRetrieve]_vars

\* two small files, "b" ahead of "a" in priority, one slot; the monitor
\* listens or not, and the host goes offline and comes back while the loop runs
EntriesOffline ==
  { Entry("a", 1, "small", TRUE, 0, DEFAULT_PRIORITY, NULL),
    Entry("b", 1, "small", FALSE, 0, 1, NULL) }
InitOffline ==
  InitWith([NoBudget EXCEPT !.register = MaxRegister, !.start = MaxStart,
                            !.edge = MaxEdges])
NextOffline ==
  \/ Drain
  \/ OfflineWait
  \/ PipelineFull(Roomy)
  \/ RegisterNew(EntriesOffline)
  \/ StartDownloads({1})
  \/ StartMonitoring
  \/ GoOffline
  \/ GoOnline
SpecOffline == InitOffline /\ [][NextOffline]_vars

\* one small file registered with or without a size hint; the storage
\* estimate is roomy, short, or that of a host without an estimator;
\* retryFailed wakes the loop for a further drain cycle
EntriesStorage ==
  { Entry("a", 1, "small", TRUE, 0, DEFAULT_PRIORITY, hint) : hint \in {NULL, 1024} }
InitStorage ==
  InitWith([NoBudget EXCEPT !.register = 1, !.start = MaxStart, !.retry = MaxRetry + 1])
NextStorage ==
  \/ Drain
  \/ PipelineFull(Estimates \cup NoStorageApi)
  \/ RegisterNew(EntriesStorage)
  \/ RetryFailed
  \/ StartDownloads({DEFAULT_CONCURRENCY})
SpecStorage == InitStorage /\ [][NextStorage]_vars

\* two small files of known size whose priorities are equal or differ
\* either way, and one slot
EntriesPriority ==
  { Entry(id, 1, "small", FALSE, 0, prio, 1024) :
      id \in Ids, prio \in {1, DEFAULT_PRIORITY} }
InitPriority ==
  InitWith([NoBudget EXCEPT !.register = MaxRegister, !.start = MaxStart])
NextPriority ==
  \/ Drain
  \/ PipelineFull(Roomy)
  \/ RegisterNew(EntriesPriority)
  \/ StartDownloads({1})
SpecPriority == InitPriority /\ [][NextPriority]_vars

\* one small file registered, and a call with a malformed entry, before or
\* after it and while the loop runs or waits
InitValidate ==
  InitWith([NoBudget EXCEPT !.register = MaxRegister, !.start = MaxStart])
NextValidate ==
  \/ Drain
  \/ PipelineFull(Roomy)
  \/ RegisterNew({Entry("a", 1, "small", TRUE, 0, DEFAULT_PRIORITY, 1024)})
  \/ RegisterFileInvalid
  \/ StartDownloads({DEFAULT_CONCURRENCY})
SpecValidate == InitValidate /\ [][NextValidate]_vars

\* one small file whose requests fail or succeed, re-queued once after it
\* has failed
InitBackoff ==
  InitWith([NoBudget EXCEPT !.register = 1, !.start = MaxStart, !.retry = MaxRetry])
NextBackoff ==
  \/ Drain
  \/ PipelineFull(Roomy)
  \/ RegisterNew({Entry("a", 1, "small", TRUE, 0, DEFAULT_PRIORITY, NULL)})
  \/ RetryFailed
  \/ StartDownloads({DEFAULT_CONCURRENCY})
SpecBackoff == InitBackoff /\ [][NextBackoff]_vars

\* one large file behind a server that may answer a Range request with
\* 200 and the whole body
InitRange ==
  InitWith([NoBudget EXCEPT !.register = 1, !.start = MaxStart, !.retry = MaxRetry])
NextRange ==
  \/ Drain
  \/ Pipeline(Roomy)
  \/ RegisterNew({Entry("a", 1, "unranged", TRUE, 0, DEFAULT_PRIORITY, NULL)})
  \/ RetryFailed
  \/ StartDownloads({DEFAULT_CONCURRENCY})
SpecRange == InitRange /\ [][NextRange]_vars

\* one small file registered and bumped, with or without a TTL, while the
\* loop runs and the clock advances
EntriesTtl ==
  { Entry("a", v, "small", TRUE, ttl, DEFAULT_PRIORITY, NULL) :
      v \in 1 .. MaxVersion, ttl \in {0, 1} }
InitComplete ==
  InitWith([NoBudget EXCEPT !.register = MaxRegister, !.start = MaxStart,
                            !.tick = MaxTicks])
NextComplete ==
  \/ Drain
  \/ Expiry
  \/ PipelineFull(Roomy)
  \/ RegisterFile(EntriesTtl)
  \/ StartDownloads({DEFAULT_CONCURRENCY})
  \/ Tick
SpecComplete == InitComplete /\ [][NextComplete]_vars

\* one file, large, of exactly the threshold, compressed in transit or small,
\* with or without a size hint
EntriesMode ==
  { Entry("a", 1, url, TRUE, 0, DEFAULT_PRIORITY, hint) :
      url \in {"big", "edge", "encoded", "small"}, hint \in {NULL, 3 * CHUNK_SIZE} }
InitMode ==
  InitWith([NoBudget EXCEPT !.register = 1, !.start = MaxStart, !.retry = MaxRetry])
NextMode ==
  \/ Drain
  \/ Pipeline(Roomy)
  \/ RegisterNew(EntriesMode)
  \/ RetryFailed
  \/ StartDownloads({DEFAULT_CONCURRENCY})
SpecMode == InitMode /\ [][NextMode]_vars

\* arrays with and without an entry that lacks its downloadUrl
ArraysMalformed ==
  LET A(v) == Entry("a", v, "small", TRUE, 1, DEFAULT_PRIORITY, NULL)
      B(v) == Entry("b", v, "small", FALSE, 0, 1, NULL)
      Bad  == Entry("a", 1, NONE, TRUE, 1, DEFAULT_PRIORITY, NULL)
  IN  { << B(v) >> : v \in 1 .. MaxVersion }
      \cup { << A(v), B(w) >> : v, w \in 1 .. MaxVersion }
      \cup { << Bad >> }
      \cup { << B(v), Bad >> : v \in 1 .. MaxVersion }
      \cup { << Bad, B(v) >> : v \in 1 .. MaxVersion }

\* the registry synced with one array after another, some of them malformed
InitBatch ==
  InitWith([NoBudget EXCEPT !.sync = MaxSync])
NextBatch ==
  \/ RegisterFiles(ArraysMalformed)
  \/ RegisterFilesReject
SpecBatch == InitBatch /\ [][NextBatch]_vars

\* one small file of known size, cancelled and deleted while the loop runs
InitPrecheck ==
  InitWith([NoBudget EXCEPT !.register = 1, !.start = MaxStart, !.stop = MaxStop,
                            !.abort = MaxAbort, !.delete = MaxDelete])
NextPrecheck ==
  \/ Drain
  \/ PipelineFull(Roomy)
  \/ RegisterNew({Entry("a", 1, "small", TRUE, 0, DEFAULT_PRIORITY, 1024)})
  \/ DeleteFile({"a"})
  \/ StartDownloads({DEFAULT_CONCURRENCY})
  \/ StopDownloads
  \/ AbortAllDownloads
SpecPrecheck == InitPrecheck /\ [][NextPrecheck]_vars

\* one small file of known size, deleted and registered again, and the loop
\* stopped, at any moment; storage may be short
EntriesDrain ==
  { Entry("a", 1, "small", FALSE, 0, DEFAULT_PRIORITY, 1024) }
InitDrain ==
  InitWith([NoBudget EXCEPT !.register = MaxRegister, !.start = MaxStart,
                            !.stop = MaxStop, !.delete = MaxDelete])
NextDrain ==
  \/ Drain
  \/ PipelineFull(Estimates)
  \/ RegisterNew(EntriesDrain)
  \/ DeleteFileCall({"a"}, {FALSE})
  \/ DeleteFileRegistry
  \/ DeleteFileQueue
  \/ StartDownloads({1})
  \/ StopDownloads
SpecDrain == InitDrain /\ [][NextDrain]_vars

\* the steps of one pipeline, and of one loop
PipelineOf(t) ==
  \/ SpaceCheck(t, Estimates)
  \/ ReadRetry(t)
  \/ UqGet(t)
  \/ UqPut(t)
  \/ Reread(t)
  \/ Probe(t)
  \/ Get(t)
  \/ Read(t)
  \/ Sleep(t)
DriverOf(d) == DrvExpRead(d) \/ DrvSnap(d)

\* every request, timer and store operation that is pending comes back
FairDrain ==
  /\ \A t \in TaskKeys : WF_vars(PipelineOf(t))
  /\ \A d \in DriverIds : WF_vars(DriverOf(d))
SpecDrainFair == SpecDrain /\ FairDrain

\* ------------------------------------------------------------ properties

HasRows(id) == id \in DOMAIN registry /\ id \in DOMAIN queue

\* no public call, no pipeline and no loop step is under way
Settled ==
  /\ api.op = "idle"
  /\ \A t \in TaskKeys : tasks[t].pc = "free"
  /\ \A d \in DriverIds : drivers[d].pc \in {"dead", "wait"}

\* C1: after a version bump of a row that holds a payload, and until the
\* refresh completes, retrieve(id) returns that payload; it never throws for
\* lack of data.  (The payload is older than the registered version exactly
\* from the bump until the completion write of the refresh.)
C1_PriorPayloadServed ==
  \A id \in Ids :
    ( /\ api.op = "idle"
      /\ HasRows(id)
      /\ queue[id].data /= NoData
      /\ queue[id].data.ver < registry[id].version )
    => retrieve(id) = Retrieved(queue[id].data, queue[id].mimeType)

\* C2: a chunked transfer that was cancelled and resumed from the persisted
\* byteOffset ends complete with a payload as long as totalBytes: a row that
\* is complete without ever having met an error (retryCount 0), whether or
\* not a cancellation interrupted it, holds all the bytes of the resource
C2_ResumedPayloadWhole ==
  \A id \in DOMAIN queue :
    (queue[id].status = COMPLETE /\ queue[id].data /= NoData /\ queue[id].retryCount = 0)
    => queue[id].data.len = queue[id].totalBytes

\* the chunked transfer of a row was cancelled after k > 0 chunks, the row
\* is paused with byteOffset = k * CHUNK_SIZE
C2_PausedMidway ==
  \E id \in DOMAIN queue :
    /\ queue[id].status = PAUSED
    /\ queue[id].byteOffset > 0
    /\ queue[id].byteOffset < queue[id].totalBytes

\* C3: with the loop running and the host online, no registration stays
\* undispatched once everything has come to rest: the loop is never parked
\* (so that only a further API call could wake it) while a row registered
\* or bumped since its last dispatch waits
C3_NoLostWake ==
  (Settled /\ loopRunning /\ online)
  => \A id \in Ids : ~(HasRows(id) /\ work[id] = "registered")

\* C4: from the moment stopDownloads() has resolved until the next
\* startDownloads(), no queue row is in-progress
C4_StoppedMeansNoneInProgress ==
  ~loopRunning => \A id \in DOMAIN queue : queue[id].status /= IN_PROGRESS

\* C5: when no store write is under way, isReady(id) is true exactly when
\* the queue row is complete or expired and holds data
C5_IsReadyIffPayload ==
  Settled =>
    \A id \in DOMAIN registry :
      isReady(id) <=> ( /\ id \in DOMAIN queue
                        /\ queue[id].status \in READY_STATUSES
                        /\ queue[id].data /= NoData )

\* C6: once the pipeline steps have settled, the registry row carries the
\* status of the queue row, and getStatus(id).downloadStatus reports it
C6_StatusMirrored ==
  Settled =>
    \A id \in Ids : HasRows(id) => downloadStatus(id) = queue[id].status

\* C7: every queue row has retryCount <= 6, and a failed row has retryCount 6
C7_RetryBounded ==
  \A id \in DOMAIN queue :
    /\ queue[id].retryCount <= MAX_RETRY_COUNT + 1
    /\ queue[id].status = FAILED => queue[id].retryCount = MAX_RETRY_COUNT + 1

\* a row has failed after a cancellation of its transfer and a resume
C7_FailedRow ==
  \E id \in DOMAIN queue :
    /\ queue[id].status = FAILED
    /\ queue[id].retryCount = MAX_RETRY_COUNT + 1
    /\ budget.abort = 0

\* C8: a row that has completed a download of the registered version stays
\* retrievable, through expiry and the refresh, as long as it has its rows
C8_NoGap ==
  \A id \in Ids :
    ( /\ HasRows(id)
      /\ queue[id].data /= NoData
      /\ queue[id].data.ver = registry[id].version
      /\ queue[id].expiresAt /= NULL )
    => retrieve(id).ok

\* a registerFile call that found a registry row of the same or a higher version
IsNoopCall(a) ==
  /\ a.op = "registerFile"
  /\ a.pc = "getQueue"
  /\ a.rd /= <<>>
  /\ a.e.version <= a.rd[1].version

\* C9: registerFile with a version not above the existing one returns
\* without a change to the registry or the queue, without an event and
\* without waking the loop
C9_NoopRegistration ==
  [][ (IsNoopCall(api) /\ api' /= api)
      => ( /\ api' = IdleApi
           /\ registry' = registry
           /\ queue' = queue
           /\ out'.ev = {}
           /\ UNCHANGED << drivers, wakeResolve, work, tasks, active >> ) ]_vars

\* a registration of a known version has returned
C9_Returned ==
  /\ out.ret.op = "registerFile"
  /\ out.ret.res = "noop"

\* the row of id is in the selection of a closure and has no slot yet
Waiting(cx, id) ==
  \E c \in CtxIds : \E i \in 1 .. Len(cx[c].q) : cx[c].q[i].id = id

\* C10: a protected delete without removeProtected keeps the registry row
\* and leaves the queue row pending, without data, with bytesDownloaded,
\* byteOffset and retryCount 0; and a drain cycle of the running loop that
\* finds the row so selects it and dispatches it
C10_ProtectedDeleteRequeues ==
  [][ /\ (api.op = "deleteFile" /\ api.pc \in {"resetGet", "resetPut"} /\ api' /= api)
         => registry' = registry /\ api.id \in DOMAIN registry
      /\ (api.op = "deleteFile" /\ api.pc = "resetPut" /\ api' /= api)
         => ( /\ queue'[api.id].status = PENDING
              /\ queue'[api.id].data = NoData
              /\ queue'[api.id].bytesDownloaded = 0
              /\ queue'[api.id].byteOffset = 0
              /\ queue'[api.id].retryCount = 0 )
      /\ \A id \in Ids :
           ( /\ \E d \in DriverIds : drivers[d].pc = "snap" /\ drivers'[d].pc /= "snap"
             /\ loopRunning
             /\ work[id] = "reset"
             /\ HasRows(id)
             /\ queue[id].status = PENDING )
           => \/ Waiting(ctxs', id)
              \/ /\ work'[id] = "redispatched"
                 /\ \E k \in 1 .. MaxPipes :
                      /\ tasks[<< id, k >>].pc = "free"
                      /\ tasks'[<< id, k >>].pc \in {"space", "readRetry"}
    ]_vars

\* a protected delete has reset a row that had been downloaded (its size is
\* known), and the loop has dispatched the row again
C10_Redispatched ==
  \E id \in Ids :
    /\ HasRows(id)
    /\ registry[id].protected
    /\ queue[id].status = PENDING
    /\ queue[id].data = NoData
    /\ queue[id].totalBytes /= NULL
    /\ work[id] = "redispatched"
    /\ \E k \in 1 .. MaxPipes : tasks[<< id, k >>].pc \in {"space", "readRetry"}

\* the rows of a store that are complete with an expiresAt that has passed
Due(store) ==
  { id \in DOMAIN store :
      /\ store[id].status = COMPLETE
      /\ store[id].expiresAt /= NULL
      /\ now >= store[id].expiresAt }

\* the same test on a row of a snapshot
DueRow(r) == r.status = COMPLETE /\ r.expiresAt /= NULL /\ now >= r.expiresAt

\* the step of evaluateExpiry that follows the visit of a row: it goes to the
\* next due row of the snapshot, or returns when none is left
VisitsNextDue(dr) ==
  IF dr.pc = "expPut"
  THEN DueRow(Head(dr.scan).row)
  ELSE dr.pc = "snap" /\ dr.scan = <<>>

\* C11: evaluateExpiry marks expired exactly the rows its dbGetAll returned as
\* complete with a non-null expiresAt that has passed: the put of each is the
\* row read with status expired (data kept) and touches no other row, the
\* registry gets the status of that id only, the id is pushed on the list it
\* returns; a call that finds no such row (as a second call at the same clock
\* value does) writes nothing and returns the empty list
C11_ExpiryExact ==
  [][ \A d \in DriverIds :
        /\ (drivers[d].pc = "expRead" /\ drivers'[d] /= drivers[d])
           => /\ queue' = queue
              /\ registry' = registry
              /\ Due(queue) = {}
                 => drivers'[d].pc = "snap" /\ drivers'[d].expiredIds = <<>>
              /\ Due(queue) /= {}
                 => /\ drivers'[d].pc = "expPut"
                    /\ drivers'[d].expiredIds = <<>>
                    /\ Head(drivers'[d].scan).id \in Due(queue)
                    /\ Due(queue) \subseteq
                         { drivers'[d].scan[i].id : i \in 1 .. Len(drivers'[d].scan) }
        /\ (drivers[d].pc = "expPut" /\ drivers'[d] /= drivers[d])
           => LET e == Head(drivers[d].scan)
              IN  /\ DueRow(e.row)
                  /\ DOMAIN queue' = DOMAIN queue \cup {e.id}
                  /\ queue'[e.id] = [e.row EXCEPT !.status = EXPIRED]
                  /\ queue'[e.id].data = e.row.data
                  /\ \A id \in DOMAIN queue \ {e.id} : queue'[id] = queue[id]
                  /\ registry' = registry
                  /\ drivers'[d].expiredIds = drivers[d].expiredIds
        /\ ( /\ drivers[d].pc \in {"expSyncGet", "expSyncPut"}
             /\ drivers'[d].pc \notin {"expSyncGet", "expSyncPut"} )
           => LET id == Head(drivers[d].scan).id
              IN  /\ queue' = queue
                  /\ DOMAIN registry' = DOMAIN registry
                  /\ \A k \in DOMAIN registry \ {id} : registry'[k] = registry[k]
                  /\ id \in DOMAIN registry
                     => registry'[id] = [registry[id] EXCEPT !.status = EXPIRED]
                  /\ drivers'[d].expiredIds = Append(drivers[d].expiredIds, id)
                  /\ out'.ev = {Ev("expired", id, NONE, 0)}
                  /\ VisitsNextDue(drivers'[d])
    ]_vars

\* evaluateExpiry has returned <<"a">>: "a" is expired and keeps its payload,
\* "b", complete without an expiresAt, is as it was
C11_MovedOne ==
  \E d \in DriverIds :
    /\ drivers[d].pc = "snap"
    /\ drivers[d].expiredIds = << "a" >>
    /\ "a" \in DOMAIN queue /\ "b" \in DOMAIN queue
    /\ queue["a"].status = EXPIRED
    /\ queue["a"].data /= NoData
    /\ now >= queue["a"].expiresAt
    /\ queue["b"].status = COMPLETE
    /\ queue["b"].expiresAt = NULL

\* the loops that are alive
Alive == { d \in DriverIds : drivers[d].pc /= "dead" }

Dispatched == { t \in TaskKeys : tasks[t].pc /= "free" }

Pipelines(id) ==
  { k \in 1 .. MaxPipes :
      /\ tasks[<< id, k >>].pc \notin {"free", "space"}
      /\ tasks[<< id, k >>].w /= "deferred" }

RequeuesOrDeletes(a, id) ==
  /\ a.id = id
  /\ \/ a.op = "retryFailed" /\ a.pc = "put"
     \/ a.op = "registerFile" /\ a.pc \in {"putQueue", "putQueueNew"}
     \/ a.op = "deleteFile" /\ a.pc \in {"deleteQueue", "resetPut"}

Range(seq) == { seq[i] : i \in 1 .. Len(seq) }

\* the protected rows that an array of entries does not name
KeptRows(store, entries) ==
  { id \in DOMAIN registry \cap DOMAIN store :
      registry[id].protected /\ id \notin Range(IdsOf(entries)) }

\* C17: registerFiles(entries) picks for removal exactly the registry rows
\* that are absent from entries and not protected, deletes each from the
\* registry and from the queue, touches no protected row that is absent from
\* entries, and returns removed = the ids it deleted and registered = the ids
\* of entries, with every entry registered (at its version or a higher one)
\* and no unprotected row outside entries left
C17_RegisterFilesSyncs ==
  [][ /\ (api.op = "idle" /\ budget'.sync < budget.sync)
         => LET incoming == IF api'.batch THEN Range(IdsOf(api'.entries))
                            ELSE Range(out'.ret.res.registered)
                gone == { id \in DOMAIN registry :
                            ~registry[id].protected /\ id \notin incoming }
            IN  /\ registry' = registry
                /\ queue' = queue
                /\ gone = {} <=> api'.pc /= "deleteRegistry"
                /\ api'.pc = "deleteRegistry" => Range(IdsOf(api'.scan)) = gone
      /\ (api.op = "registerFiles" /\ api.pc = "deleteRegistry")
         => /\ api.id \in DOMAIN registry
            /\ ~registry[api.id].protected
            /\ api.id \notin Range(IdsOf(api.entries))
            /\ registry' = dbDelete(registry, api.id)
            /\ queue' = queue
      /\ (api.op = "registerFiles" /\ api.pc = "deleteQueue")
         => /\ queue' = dbDelete(queue, api.id)
            /\ registry' = registry
            /\ Append(api.removed, api.id)
                 = IF api'.batch THEN api'.removed ELSE out'.ret.res.removed
      /\ (api.batch /\ api' /= api)
         => /\ \A id \in KeptRows(registry, api.entries) :
                 id \in DOMAIN registry' /\ registry'[id] = registry[id]
            /\ \A id \in KeptRows(queue, api.entries) :
                 id \in DOMAIN queue' /\ queue'[id] = queue[id]
      /\ (api.batch /\ api' = IdleApi)
         => /\ out'.ret.op = "registerFiles"
            /\ out'.ret.res.registered = IdsOf(api.entries)
            /\ \A id \in Range(out'.ret.res.removed) :
                 id \notin DOMAIN registry' /\ id \notin DOMAIN queue'
            /\ \A id \in DOMAIN registry' :
                 registry'[id].protected \/ id \in Range(IdsOf(api.entries))
            /\ \A id \in DOMAIN registry \ DOMAIN registry' :
                 id \in Range(out'.ret.res.removed)
            /\ \A i \in 1 .. Len(api.entries) :
                 /\ api.entries[i].id \in DOMAIN registry' \cap DOMAIN queue'
                 /\ registry'[api.entries[i].id].version >= api.entries[i].version
    ]_vars

\* registerFiles has returned after removing "b" and keeping the protected
\* "a", neither of them named by its array
C17_RemovedUnprotected ==
  /\ out.ret.op = "registerFiles"
  /\ out.ret.res.removed = << "b" >>
  /\ out.ret.res.registered = << >>
  /\ "a" \in DOMAIN registry /\ "a" \in DOMAIN queue
  /\ "b" \notin DOMAIN registry /\ "b" \notin DOMAIN queue

\* C18: deleteFile of an id without a registry row throws, emits nothing and
\* changes nothing; of a registered id it takes the removing branch exactly
\* when the entry is not protected or removeProtected is given, and that
\* branch returns with both rows gone (so that the next deleteFile of the id
\* throws); the other branch returns with the registry untouched and the
\* queue row reset, and run on a row that is already reset it leaves the row
\* as it is
C18_DeleteFileContract ==
  [][ /\ (api.op = "idle" /\ budget'.delete < budget.delete)
         => LET id == IF api'.op = "deleteFile" THEN api'.id ELSE out'.ret.id
            IN  /\ id \notin DOMAIN registry
                   => /\ api' = IdleApi
                      /\ out' = Return({}, Ret("deleteFile", id, "throw"))
                      /\ UNCHANGED << registry, queue, tasks, active, drivers,
                                      wakeResolve, loopRunning >>
                /\ id \in DOMAIN registry
                   => /\ api'.op = "deleteFile"
                      /\ api'.pc \in {"deleteRegistry", "resetGet"}
                      /\ api'.pc = "deleteRegistry"
                           <=> (api'.rp \/ ~registry[id].protected)
                      /\ UNCHANGED << registry, queue >>
      /\ (api.op = "deleteFile" /\ api.pc = "deleteQueue" /\ api' /= api)
         => /\ api' = IdleApi
            /\ out'.ret = Ret("deleteFile", api.id, "removed")
            /\ api.id \notin DOMAIN registry'
            /\ api.id \notin DOMAIN queue'
      /\ (api.op = "deleteFile" /\ api.pc \in {"resetGet", "resetPut"} /\ api' = IdleApi)
         => /\ out'.ret = Ret("deleteFile", api.id, "kept")
            /\ registry' = registry
            /\ api.id \in DOMAIN registry
            /\ api.id \in DOMAIN queue'
               => queue'[api.id] = ResetRow(queue'[api.id])
            /\ ( /\ api.pc = "resetPut"
                 /\ api.id \in DOMAIN queue
                 /\ api.rd[1] = queue[api.id]
                 /\ queue[api.id] = ResetRow(queue[api.id]) )
               => queue' = queue
    ]_vars

\* "a" was registered, a first deleteFile removed its rows, and a second
\* deleteFile has thrown
C18_SecondThrows ==
  /\ out.ret = Ret("deleteFile", "a", "throw")
  /\ budget.register = 0
  /\ budget.delete = 0
  /\ "a" \notin DOMAIN registry

InFlight == {"probe", "get", "read", "chunk"}

\* the pipeline tr begins the updateQueue call w in the step to tr2
Begins(tr, tr2, w) ==
  /\ tr2.pc = "uqGet"
  /\ tr2.w = w
  /\ ~(tr.pc = "uqGet" /\ tr.w = w)

C21_OfflineBurnsNoRetries ==
  [][ (~online /\ ~online' /\ monitoring)
      => /\ \A t \in TaskKeys : tasks[t].pc = "free" => tasks'[t].pc = "free"
         /\ \A id \in DOMAIN queue \cap DOMAIN queue' :
              queue'[id].retryCount <= queue[id].retryCount
    ]_vars

\* the offline edge cancelled the transfer of "b" while "a", selected by
\* the same drain cycle, waited for the slot; the host is still offline, "b"
\* is paused, and "a" was dispatched and has counted an error
C21_RetryBurnedOffline ==
  /\ ~online
  /\ monitoring
  /\ HasRows("a") /\ HasRows("b")
  /\ work["b"] = "offline"
  /\ queue["b"].status = PAUSED
  /\ queue["a"].retryCount >= 1

\* C22: with the monitor listening, once everything has come to rest after
\* an offline edge, every row whose transfer the edge cancelled is paused
\* with deferredReason "network-offline"
C22_OfflinePausesWithReason ==
  (Settled /\ monitoring /\ ~online)
  => \A id \in Ids :
       (HasRows(id) /\ work[id] = "offline")
       => /\ queue[id].status = PAUSED
          /\ queue[id].deferredReason = "network-offline"

\* the transfer of "b" was cancelled by the offline edge, everything is at
\* rest and the host is still offline: the row is paused
C22_PausedByEdge ==
  /\ Settled /\ monitoring /\ ~online
  /\ HasRows("b")
  /\ work["b"] = "offline"
  /\ queue["b"].status = PAUSED

\* C23: with the monitor listening, the loop running and the host online
\* again, a row paused by the offline edge does not stay undispatched once
\* everything has come to rest: the loop is never parked, so that only a
\* further call or edge could wake it, while such a row waits
C23_OnlineRedispatches ==
  (Settled /\ loopRunning /\ monitoring /\ online)
  => \A id \in Ids :
       ~(HasRows(id) /\ work[id] = "offline" /\ queue[id].status = PAUSED)

\* need > available - quota / 10, in tenths; an unlimited quota is never short
Short(need, est) ==
  /\ est.quota /= Infinity
  /\ 10 * need > 10 * (est.quota - est.usage) - est.quota

\* C24: a dispatched item has the need registry.totalBytes, else
\* queue.totalBytes, else 0; with need 0 it enters downloadSingleFile at
\* once; with need > 0 its pre-check sends it to the deferred write exactly
\* when the estimate is short, and into downloadSingleFile otherwise; the
\* deferred write sets status deferred and deferredReason
\* "insufficient-storage" and nothing else, emits deferred and frees the
\* slot; a drain cycle selects every deferred row that has a registry row
C24_DeferredWhenShort ==
  [][ /\ \A t \in TaskKeys :
           LET tr  == tasks[t]
               tr2 == tasks'[t]
               id  == t[1]
           IN  /\ (tr.pc = "free" /\ tr2.pc /= "free")
                  => /\ HasRows(id)
                     /\ tr2.need = Coalesce(registry[id].totalBytes,
                                             Coalesce(queue[id].totalBytes, 0))
                     /\ tr2.pc = IF tr2.need > 0 THEN "space" ELSE "readRetry"
               /\ (tr.pc = "space" /\ tr2 /= tr)
                  => /\ queue' = queue
                     /\ IF Short(tr.need, tr2.est)
                        THEN tr2.pc = "uqGet" /\ tr2.w = "deferred"
                        ELSE tr2.pc = "readRetry"
               /\ (tr.pc = "uqPut" /\ tr.w = "deferred" /\ tr2 /= tr)
                  => /\ tr2.pc = "free"
                     /\ queue' = [queue EXCEPT
                                    ![id] = [@ EXCEPT !.status = DEFERRED,
                                                      !.deferredReason =
                                                        "insufficient-storage"]]
                     /\ Ev("deferred", id, "insufficient-storage", 0) \in out'.ev
      /\ \A d \in DriverIds :
           (drivers[d].pc = "snap" /\ drivers'[d] /= drivers[d])
           => \A id \in Ids :
                (HasRows(id) /\ queue[id].status = DEFERRED)
                => \/ \E t \in TaskKeys :
                        t[1] = id /\ tasks[t].pc = "free" /\ tasks'[t].pc /= "free"
                   \/ \E c \in CtxIds : \E i \in 1 .. Len(ctxs'[c].q) : ctxs'[c].q[i].id = id
    ]_vars

\* on a host without a storage estimator the pre-check of an item with a
\* known size has sent it to the deferred write
C24_DeferredWithoutEstimator ==
  \E t \in TaskKeys :
    /\ tasks[t].pc = "uqPut"
    /\ tasks[t].w = "deferred"
    /\ tasks[t].need > 0
    /\ tasks[t].est \in NoStorageApi

\* id x comes before id y in the queue scan (key order)
ScannedBefore(x, y) ==
  \E i, j \in 1 .. Len(IdOrder) : IdOrder[i] = x /\ IdOrder[j] = y /\ i < j

\* C25: when a drain cycle dispatches an item, every item of its selection
\* that still waits for a slot has a higher priority number, or the same
\* one and a later place in the queue scan
C25_PriorityOrder ==
  [][ \A t \in TaskKeys :
        (tasks[t].pc = "free" /\ tasks'[t].pc /= "free")
        => LET c == tasks'[t].ctx
               p == tasks'[t].reg.priority
           IN  \A i \in 1 .. Len(ctxs'[c].q) :
                 LET w == ctxs'[c].q[i]
                 IN  w.reg /= <<>>
                     => \/ p < w.reg[1].priority
                        \/ p = w.reg[1].priority /\ ScannedBefore(t[1], w.id)
    ]_vars

\* "b" was dispatched ahead of "a", which comes first in the queue scan and
\* has the higher priority number, and "a" waits for the slot
C25_LowerNumberFirst ==
  /\ HasRows("a") /\ HasRows("b")
  /\ registry["b"].priority < registry["a"].priority
  /\ \E t \in TaskKeys : t[1] = "b" /\ tasks[t].pc /= "free"
  /\ \E c \in CtxIds : Len(ctxs[c].q) = 1 /\ ctxs[c].q[1].id = "a"

\* an entry that is not an object, or whose id or downloadUrl is missing or
\* not a string, whose mimeType is not a string, whose version is not a
\* non-negative integer, or whose ttl is negative or not a number
Malformed(sh) ==
  \/ ~sh.object
  \/ sh.id \in {"undefined", "number"}
  \/ sh.url \in {"undefined", "number"}
  \/ sh.mime = "number"
  \/ sh.version /= "natural"
  \/ sh.ttl \in {"negative", "string", "null"}

\* C26: registerFile with a malformed entry fails to the caller, writes
\* nothing to the registry or the queue, emits no registered event and does
\* not wake the loop
C26_MalformedRejected ==
  [][ (out'.ret.op = "registerFile" /\ out'.ret.id = NONE)
      => ( Malformed(out'.ret.res.shape)
           => /\ out'.ret.res.outcome = "throw"
              /\ registry' = registry
              /\ queue' = queue
              /\ \A e \in out'.ev : e.type /= "registered"
              /\ drivers' = drivers
              /\ wakeResolve' = wakeResolve )
    ]_vars

\* on a host whose global object has a property id, a call with a negative
\* ttl has emitted the error event and resolved
C26_ErrorSwallowed ==
  /\ out.ret.op = "registerFile"
  /\ out.ret.id = NONE
  /\ out.ret.res.outcome = "done"
  /\ out.ret.res.shape.ttl = "negative"
  /\ Ev("error", NONE, validateEntry(out.ret.res.shape), 0) \in out.ev

\* the error events a step emits for id
ErrorsOf(o, id) == { e \in o.ev : e.type = "error" /\ e.id = id }

\* the pipeline of a new item: it counts from 0, each non-abort error adds
\* one; the errors 1..5 each emit one error event with that retryCount and
\* willRetry true, write the row pending and sleep 1000 * 2^(retryCount-1)
\* ms, after which the next attempt begins; no attempt begins with a count
\* above 5; the sixth error writes the row failed with retryCount 6
RetriesAndBackoff(t) ==
  LET tr  == tasks[t]
      tr2 == tasks'[t]
      id  == t[1]
  IN  /\ (tr.pc = "readRetry" /\ tr2 /= tr) => tr2.rc = 0
      /\ (tr.pc /= "free" /\ tr2.pc /= "free" /\ tr2.rc /= tr.rc /\ tr.pc /= "readRetry")
         => /\ tr2.rc = tr.rc + 1
            /\ tr.pc \in {"get", "read"}
            /\ tr2.pc = "uqGet"
            /\ IF tr2.rc <= 5
               THEN /\ tr2.w = "retry"
                    /\ ErrorsOf(out', id) = {Ev("error", id, "willRetry: true", tr2.rc)}
               ELSE /\ tr2.rc = 6
                    /\ tr2.w = "failed"
                    /\ ErrorsOf(out', id) = {}
      /\ (tr.pc /= "free" /\ tr2.rc = tr.rc /\ ~(tr.pc = "uqPut" /\ tr.w = "failed"))
         => ErrorsOf(out', id) = {}
      /\ (tr2.pc = "sleep" /\ tr.pc /= "sleep")
         => /\ tr.w = "retry"
            /\ tr2.rc \in 1 .. 5
            /\ tr2.delay = 1000 * 2 ^ (tr2.rc - 1)
            /\ queue'[id].status = PENDING
            /\ queue'[id].retryCount = tr2.rc
      /\ (tr.pc = "sleep" /\ tr2 /= tr)
         => Begins(tr, tr2, "inProgress") /\ tr2.rc = tr.rc
      /\ Begins(tr, tr2, "inProgress") => tr2.rc <= 5
      /\ (tr.pc = "uqPut" /\ tr.w = "failed" /\ tr2 /= tr)
         => /\ tr2.pc = "free"
            /\ queue'[id].status = FAILED
            /\ queue'[id].retryCount = 6

\* C27: a pipeline whose every GET fails makes 6 attempts and emits 6 error
\* events with retryCount 1..6, the first five with willRetry true and a
\* sleep of 1000 * 2^(retryCount-1) ms after each, the last with willRetry
\* false as it leaves the row failed
C27_SixAttempts ==
  [][ \A t \in TaskKeys :
        /\ RetriesAndBackoff(t)
        /\ (tasks[t].pc = "uqPut" /\ tasks[t].w = "failed" /\ tasks'[t] /= tasks[t])
           => ErrorsOf(out', t[1]) = {Ev("error", t[1], "willRetry: false", 6)}
    ]_vars

\* the sixth GET of a new item has failed: the row is failed with
\* retryCount 6 and the last error event has been emitted
C27_FailedAfterSix ==
  /\ HasRows("a")
  /\ queue["a"].status = FAILED
  /\ queue["a"].retryCount = 6
  /\ \E e \in out.ev : e.type = "error" /\ e.id = "a" /\ e.n = 6

\* C28: a chunk request that is answered 200 fails the attempt: the body is
\* not added to the chunks, retryCount is incremented and the retry or the
\* failed write begins
C28_Status200IsError ==
  [][ \A t \in TaskKeys :
        LET tr  == tasks[t]
            tr2 == tasks'[t]
        IN  (tr.pc = "chunk" /\ tr2 /= tr /\ tr2.last = "200")
            => /\ tr2.got = tr.got
               /\ tr2.rc = tr.rc + 1
               /\ tr2.pc = "uqGet"
               /\ tr2.w \in {"retry", "failed"}
    ]_vars

\* the second chunk request was answered 200: the row is complete with a
\* payload longer than the resource
C28_BodyStoredAsChunk ==
  /\ HasRows("a")
  /\ queue["a"].status = COMPLETE
  /\ queue["a"].data /= NoData
  /\ queue["a"].data.len > ContentLength(registry["a"].downloadUrl)

\* what a completion write leaves in a row, given the ttl of the registry row
CompleteShape(row, ttl) ==
  /\ row.data /= NoData
  /\ row.bytesDownloaded = row.data.len
  /\ row.byteOffset = row.data.len
  /\ row.completedAt /= NULL
  /\ row.completedAt <= now
  /\ ttl > 0 => row.expiresAt = row.completedAt + ttl * 1000
  /\ ttl = 0 => row.expiresAt = NULL
  /\ row.errorMessage = NONE
  /\ row.deferredReason = NONE

\* C29: while no registration or delete is half done, a row is complete only
\* as its completion write left it: it holds data, bytesDownloaded =
\* byteOffset = the length of the data, completedAt is the time of
\* completion, expiresAt is completedAt + ttl * 1000 when the ttl of the
\* registry row is above 0 and null when it is 0, and errorMessage and
\* deferredReason are null
C29_CompleteRowShape ==
  \A id \in Ids :
    (api.op = "idle" /\ HasRows(id) /\ queue[id].status = COMPLETE)
      => CompleteShape(queue[id], registry[id].ttl)

\* a registered file without TTL rests complete with an expiry time
C29_ExpiresWithoutTtl ==
  /\ Settled
  /\ HasRows("a")
  /\ queue["a"].status = COMPLETE
  /\ registry["a"].ttl = 0
  /\ queue["a"].expiresAt /= NULL

\* the step of an attempt that picks its transfer
ModeChosen(tr, tr2) ==
  /\ \/ tr.pc \in {"reread", "probe"}
     \/ tr.pc \in {"uqGet", "uqPut"} /\ tr.w = "totalBytes"
  /\ \/ tr2.pc \in {"get", "chunk"}
     \/ tr2.pc = "uqGet" /\ tr2.w = "complete"

\* Range is supported: so the HEAD said, or byteOffset > 0
RangeSupported(tr) ==
  IF tr.off > 0 THEN TRUE
  ELSE tr.head = "ok" /\ AcceptsRanges(tr.reg.downloadUrl)

\* C30: an attempt is chunked exactly when Range is supported, totalBytes is
\* known and totalBytes is above LARGE_FILE_THRESHOLD; otherwise it starts
\* one full GET: so with exactly LARGE_FILE_THRESHOLD bytes, with no
\* totalBytes (a compressed response gives none), and after a failed HEAD
C30_ChunkedIff ==
  [][ \A t \in TaskKeys :
        LET tr  == tasks[t]
            tr2 == tasks'[t]
            url == tr2.reg.downloadUrl
        IN  ModeChosen(tr, tr2) =>
              /\ tr2.chunked <=> /\ RangeSupported(tr2)
                                 /\ tr2.tb /= NULL
                                 /\ tr2.tb > LARGE_FILE_THRESHOLD
              /\ tr2.chunked => tr2.pc /= "get"
              /\ ~tr2.chunked => tr2.pc = "get"
              /\ tr2.tb = LARGE_FILE_THRESHOLD => tr2.pc = "get"
              /\ tr2.tb = NULL => tr2.pc = "get"
              /\ (tr2.off = 0 /\ tr2.head = "error") => tr2.pc = "get"
              /\ (tr2.off = 0 /\ IsEncoded(url) /\ tr2.reg.totalBytes = NULL)
                   => tr2.tb = NULL
    ]_vars

\* a file of exactly LARGE_FILE_THRESHOLD bytes whose server takes Range
\* requests is fetched with one GET
C30_FullGetAtThreshold ==
  \E t \in TaskKeys :
    /\ tasks[t].pc = "get"
    /\ tasks[t].head = "ok"
    /\ tasks[t].range
    /\ tasks[t].tb = LARGE_FILE_THRESHOLD

\* C31: within one attempt the bytesDownloaded values of the progress events
\* never decrease, and the completion write of an attempt that emitted
\* progress stores data, and bytesDownloaded, of the length its last progress
\* event gave
C31_ProgressEndsAtLength ==
  [][ \A t \in TaskKeys :
        LET tr  == tasks[t]
            tr2 == tasks'[t]
        IN  /\ (tr.pc \notin {"free", "reread"} /\ tr2.pc /= "free" /\ tr.prog /= NULL)
               => tr2.prog >= tr.prog
            /\ (tr.pc = "uqPut" /\ tr.w = "complete" /\ tr2.pc /= "uqPut" /\ tr.prog /= NULL)
               => /\ queue'[t[1]].status = COMPLETE
                  /\ queue'[t[1]].data.len = tr.prog
                  /\ queue'[t[1]].bytesDownloaded = tr.prog
    ]_vars

\* an attempt that resumed from a byteOffset above 0 stands at its
\* completion write
C31_ResumedCompletes ==
  \E t \in TaskKeys :
    /\ tasks[t].pc = "uqPut"
    /\ tasks[t].w = "complete"
    /\ tasks[t].off > 0
    /\ tasks[t].prog /= NULL

\* a call of registerFiles is under way whose array holds a malformed entry
MalformedBatch ==
  /\ api.batch
  /\ \E i \in 1 .. Len(api.entries) : validateEntry(EntryShape(api.entries[i])) /= "ok"

\* C32: a call of registerFiles with a malformed entry in its array removes
\* no row, registers no entry, and fails
C32_ValidatedBeforeChange ==
  [][ MalformedBatch =>
        /\ registry' = registry
        /\ queue' = queue
        /\ api'.op = "idle" => out'.ret.res = Failed("ReferenceError")
    ]_vars

\* a row has been removed in a call that goes on to its malformed entry
C32_RemovedBeforeReject ==
  /\ MalformedBatch
  /\ api.removed /= <<>>
  /\ api.pc = "register"

\* C33: whenever no call, no pipeline and no loop step is under way, the
\* queue has a row for an id exactly when the registry has one
C33_RowsInParallel ==
  Settled => \A id \in Ids : (id \in DOMAIN queue <=> id \in DOMAIN registry)

\* a queue row rests without its registry row
C33_OrphanQueueRow ==
  /\ Settled
  /\ "a" \in DOMAIN queue
  /\ "a" \notin DOMAIN registry

\* C34: a row that has settled at complete holds the payload of the version
\* its registry row has
C34_CompleteIsCurrent ==
  \A id \in Ids :
    (Settled /\ HasRows(id) /\ queue[id].status = COMPLETE /\ queue[id].data /= NoData)
      => queue[id].data.ver = registry[id].version

\* the row rests complete with the payload of the version before the bump
C34_StalePayloadComplete ==
  /\ Settled
  /\ HasRows("a")
  /\ queue["a"].status = COMPLETE
  /\ queue["a"].data /= NoData
  /\ queue["a"].data.ver < registry["a"].version
  /\ loopRunning

\* an attempt on a row that had completed a chunked transfer: it read
\* byteOffset = totalBytes, above LARGE_FILE_THRESHOLD
RefreshOfChunked(tr) ==
  /\ tr.tb /= NULL
  /\ tr.tb > LARGE_FILE_THRESHOLD
  /\ tr.off = tr.tb

\* C35: the refresh of an expired row that had completed with byteOffset =
\* totalBytes above LARGE_FILE_THRESHOLD ends complete with data of length
\* totalBytes
C35_RefreshIsWhole ==
  [][ \A t \in TaskKeys :
        LET tr  == tasks[t]
            tr2 == tasks'[t]
        IN  (tr.pc = "uqPut" /\ tr.w = "complete" /\ tr2.pc /= "uqPut" /\ RefreshOfChunked(tr))
            => /\ queue'[t[1]].status = COMPLETE
               /\ queue'[t[1]].data.len = tr.tb
    ]_vars

\* the refresh of such a row stands at its completion write, the old
\* payload still in the row
C35_RefreshCompletes ==
  \E t \in TaskKeys :
    /\ tasks[t].pc = "uqPut"
    /\ tasks[t].w = "complete"
    /\ RefreshOfChunked(tasks[t])
    /\ tasks[t].rd /= <<>>
    /\ tasks[t].rd[1].data /= NoData
    /\ tasks[t].rd[1].expiresAt /= NULL

\* the completion write of a pipeline of id is the step taken
CompletionWrite(id) ==
  \E t \in TaskKeys :
    /\ t[1] = id
    /\ tasks[t].pc = "uqPut"
    /\ tasks[t].w = "complete"
    /\ tasks'[t].pc /= "uqPut"

\* C36: the data of a row that a protected delete has set to null stays
\* null until a download completes: no other write, the paused write of the
\* aborted pipeline included, puts a payload into the row
C36_DeletedStaysEmpty ==
  [][ \A id \in Ids :
        ( /\ id \in DOMAIN queue
          /\ id \in DOMAIN queue'
          /\ queue[id].data = NoData
          /\ queue'[id].data /= NoData )
        => CompletionWrite(id)
    ]_vars

\* the protected delete has reset the row, nothing has been dispatched since,
\* and the row rests paused with a payload
C36_PayloadBack ==
  /\ Settled
  /\ HasRows("a")
  /\ work["a"] = "reset"
  /\ queue["a"].status = PAUSED
  /\ queue["a"].data /= NoData

\* C37: an item that stood in its storage pre-check when stopDownloads,
\* abortAllDownloads or deleteFile of its id ran does not go on to
\* downloadSingleFile
C37_CancelReachesPrecheck ==
  [][ \A t \in TaskKeys :
        (tasks[t].pc = "space" /\ tasks[t].missed)
          => tasks'[t].pc /= "readRetry"
    ]_vars

\* a cancellation ran while the item stood in the pre-check, its size known
C37_CancelledInPrecheck ==
  \E t \in TaskKeys :
    /\ tasks[t].pc = "space"
    /\ tasks[t].missed
    /\ tasks[t].need > 0

\* the put of resetQueueEntry for id is the step taken
ProtectedDeleteWrite(id) ==
  /\ api.op = "deleteFile"
  /\ api.pc = "resetPut"
  /\ api.id = id
  /\ api'.op = "idle"

\* C38: the data and the mimeType of a queue row change only in a completion
\* write, and the data, to null, in the reset of a protected delete; no other
\* write to the row changes them
C38_DataChangesOnlyOnCompletion ==
  [][ \A id \in Ids :
        (id \in DOMAIN queue /\ id \in DOMAIN queue')
        => /\ queue'[id].data /= queue[id].data
              => \/ CompletionWrite(id)
                 \/ ProtectedDeleteWrite(id) /\ queue'[id].data = NoData
           /\ queue'[id].mimeType /= queue[id].mimeType => CompletionWrite(id)
    ]_vars

\* the queue put of a version bump is due with a row read before the
\* payload of the row changed
C38_BumpHoldsOldRow ==
  /\ api.op = "registerFile"
  /\ api.pc = "putQueue"
  /\ api.rq /= <<>>
  /\ api.id \in DOMAIN queue
  /\ api.rq[1].data /= queue[api.id].data

\* C39: every drain cycle ends: no pipeline goes beyond the attempts that
\* MAX_RETRY_COUNT allows, every dispatched pipeline settles, and every loop
\* that has entered drainQueue comes back from it
C39_DrainTerminates ==
  /\ [](\A t \in TaskKeys : tasks[t].rc <= MAX_RETRY_COUNT + 1)
  /\ \A t \in TaskKeys : (tasks[t].pc /= "free") ~> (tasks[t].pc = "free")
  /\ \A d \in DriverIds :
       (drivers[d].pc \notin {"dead", "wait"}) ~> (drivers[d].pc \in {"dead", "wait"})

\* the loop has been stopped in the middle of a drain cycle
C39_StoppedMidCycle ==
  /\ ~loopRunning
  /\ \E d \in DriverIds : drivers[d].pc = "drain"
  /\ \E t \in TaskKeys : tasks[t].pc \notin {"free", "space"}

====
